---------------------------- MODULE Spec2Model ----------------------------
(***************************************************************************)
(* A model of the anthill-core tick engine (anthill-core/src/engine.rs)    *)
(* with its data model (types/*.rs), event list (events.rs) and seeded    *)
(* generator (rng.rs).                                                     *)
(*                                                                         *)
(* Representation.                                                         *)
(*  - f64 amounts (resources, hunger, contamination, bonuses) are integers *)
(*    counted in units of 1/FP, so 0.0005 is 5 and 100.0 is 1000000.       *)
(*  - Option<T> is a sequence of length 0 (None) or 1 (Some(x)).           *)
(*  - HashMap<String, V> is a function whose domain is its key set; the    *)
(*    order in which a HashMap is iterated is not fixed by the language,   *)
(*    so every tick() call takes a key order `ord` out of HashOrders and   *)
(*    iterates all its maps in that order.                                 *)
(*  - u64 seeds are 8 little-endian byte limbs, with wrapping arithmetic.  *)
(*  - Two engines are driven side by side (state/engine/events and the     *)
(*    record twin), each on its own copy of the starting snapshot.         *)
(*  - The record journal keeps what the first engine's earlier ticks did   *)
(*    (the ticks of the latest blight strike, spawns and summon attempts,  *)
(*    when each undertaker began its corpse); no phase reads it.           *)
(*  - SpecLong drives one engine for MaxLongCalls ticks from a snapshot,   *)
(*    long enough for the blight, processing, cooldown and spawn intervals *)
(*    to elapse.                                                           *)
(*  - SpecSystem calls disable() and enable() in any order on one System   *)
(*    value (the record bench).                                            *)
(*  - A further specification, SpecF64, runs process_systems on amounts     *)
(*    held as IEEE-754 doubles (the record ledger), where every addition   *)
(*    rounds to 53 significant bits.                                       *)
(***************************************************************************)
EXTENDS Integers, Sequences, FiniteSets, TLC

VARIABLES state, engine, events, probe, twin, start, calls, crossed, ledger,
          journal, bench

vars == <<state, engine, events, probe, twin, start, calls, crossed, ledger,
          journal, bench>>

-----------------------------------------------------------------------------
(* Bounds of the model *)

\* tick() calls made on each engine in one behaviour
MaxCalls == 4

\* ticks run on each copy of the f64 ledger in one behaviour
MaxTicksF64 == 6

\* tick() calls made on the engine in one long run
MaxLongCalls == 1810

\* disable() and enable() calls made on the system of the bench
MaxSystemCalls == 5

\* process_offline_progress() calls made on one snapshot
MaxOfflineCalls == 1

\* to_json() calls made in one behaviour
MaxSaves == 2

\* calls of any kind made on one engine and its snapshot
MaxBookCalls == 3

-----------------------------------------------------------------------------
(* Fixed-point scale and the engine's constants (engine.rs, mod constants) *)

FP == 10000

DEFAULT_MAX_AGE == 7200
HUNGER_THRESHOLD_EAT == 500000
HUNGER_GAIN_FROM_EATING == 300000
MAX_HUNGER == 1000000
ONE_FOOD == 10000

SPAWN_INTERVAL_TICKS == 1800
SPAWN_COST_NUTRIENTS == 100000
SPAWN_COST_FUNGUS == 100000
MIN_RESOURCES_TO_SPAWN == 150000

CORPSE_PROCESSING_TICKS == 120
CORPSE_NUTRIENT_BOOST == 1000
CORPSE_BOOST_DURATION == 600
CONTAMINATION_PER_CORPSE == 100
MAX_CONTAMINATION == 10000
BLIGHT_DURATION == 300

SUMMON_COST == 20000
SUMMON_COOLDOWN == 600
SUMMON_CHANCE == 3000
LISTENING_DRAIN == 5
MAINTENANCE_INTERVAL == 3600
MAINTENANCE_COST_STRANGE_MATTER == 10000

HUNGRY_INFLUENCE_CONSUME == 1000
HUNGRY_STRANGE_MATTER_PRODUCE == 500
HUNGRY_HUNGER_GAIN == 200000

BOREDOM_THRESHOLD == 60

MAX_OFFLINE_TICKS == 3600
MIN_OFFLINE_TICKS == 10

RESOURCE_THRESHOLDS == <<100000, 250000, 500000, 1000000, 2500000, 5000000, 10000000>>

-----------------------------------------------------------------------------
(* Small helpers *)

Min(a, b) == IF a <= b THEN a ELSE b

Max(a, b) == IF a >= b THEN a ELSE b

Range(s) == {s[i] : i \in 1..Len(s)}

None == <<>>

Some(x) == <<x>>

IsSome(o) == Len(o) = 1

\* Option::unwrap_or
UnwrapOr(o, d) == IF Len(o) = 1 THEN o[1] ELSE d

EmptyMap == [k \in {} |-> 0]

\* one-entry map
Entry(k, v) == [x \in {k} |-> v]

Reverse(s) == [i \in 1..Len(s) |-> s[Len(s) + 1 - i]]

\* the keys of map m in the iteration order ord
Keys(m, ord) == SelectSeq(ord, LAMBDA k : k \in DOMAIN m)

-----------------------------------------------------------------------------
(* u64 arithmetic on byte limbs (least significant first) *)

LIMBS == 8

BYTE == 256

RECURSIVE ToLimbs(_, _)
ToLimbs(n, k) == IF k = 0 THEN <<>> ELSE <<n % BYTE>> \o ToLimbs(n \div BYTE, k - 1)

\* a small natural as a u64
ToU64(n) == ToLimbs(n, LIMBS)

RECURSIVE Carry(_, _, _)
\* propagate carries through column sums cols from position i, dropping the
\* carry out of the last limb (wrapping)
Carry(cols, i, c) ==
    IF i > LIMBS THEN <<>>
    ELSE LET v == cols[i] + c
         IN  <<v % BYTE>> \o Carry(cols, i + 1, v \div BYTE)

RECURSIVE SumTo(_, _)
SumTo(f, n) == IF n = 0 THEN 0 ELSE f[n] + SumTo(f, n - 1)

\* u64::wrapping_add
wrapping_add(a, b) == Carry([i \in 1..LIMBS |-> a[i] + b[i]], 1, 0)

\* u64::wrapping_mul
wrapping_mul(a, b) ==
    Carry([k \in 1..LIMBS |-> SumTo([i \in 1..k |-> a[i] * b[k + 1 - i]], k)], 1, 0)

\* 2654435761 = 0x9E3779B1: the per-tick mixing constant of from_tick
TICK_MIX == <<177, 121, 55, 158, 0, 0, 0, 0>>

-----------------------------------------------------------------------------
(* SeededRng (rng.rs).  The generator is the pair of its seed and the      *)
(* number of draws made; the k-th output word of the ChaCha8 stream of a   *)
(* seed is a fixed function of (seed, k), here a polynomial hash of the    *)
(* seed's limbs.                                                           *)

WORD_RANGE == 65521

RECURSIVE HashLimbs(_, _, _)
HashLimbs(seed, i, h) ==
    IF i > LIMBS THEN h
    ELSE HashLimbs(seed, i + 1, (h * 263 + seed[i] * 71 + i) % WORD_RANGE)

\* the k-th word (k >= 1) drawn from the stream seeded with seed
ChaChaWord(seed, k) ==
    LET h1 == HashLimbs(seed, 1, (k * 7919 + 104729) % WORD_RANGE)
        h2 == HashLimbs(seed, 1, (h1 * 31 + k) % WORD_RANGE)
    IN  (h2 * 4099 + h1) % WORD_RANGE

\* SeededRng::new
SeededRng_new(seed) == [seed |-> seed, calls |-> 0]

\* SeededRng::from_tick
from_tick(base_seed, tick) ==
    SeededRng_new(wrapping_add(base_seed, wrapping_mul(ToU64(tick), TICK_MIX)))

\* the word the next draw of rng returns
NextWord(rng) == ChaChaWord(rng.seed, rng.calls + 1)

\* the generator after one draw
Drawn(rng) == [rng EXCEPT !.calls = @ + 1]

\* SeededRng::chance: the outcome of the next draw with the probability
\* clamped to [0, 1]
chance(rng, probability) ==
    LET p == Max(0, Min(FP, probability))
    IN  NextWord(rng) * FP < p * WORD_RANGE

\* SeededRng::range: the next draw as an integer of [lo, hi]
range(rng, lo, hi) == lo + (NextWord(rng) % (hi - lo + 1))

\* SeededRng::entity_id: the next draw as 8 hex digits
entity_id(rng) == <<"e", NextWord(rng)>>

\* SeededRng::visitor_id: "v_" and the low 24 bits of the next draw
visitor_id(rng) == <<"v", NextWord(rng) % 16777216>>

-----------------------------------------------------------------------------
(* Resources (types/resource.rs) *)

\* Resources::get: absent keys read as zero
get(resources, name) == IF name \in DOMAIN resources THEN resources[name] ELSE 0

\* Resources::add
add(resources, name, delta) ==
    [k \in (DOMAIN resources) \cup {name} |->
        IF k = name THEN get(resources, name) + delta ELSE resources[k]]

HasStrictlyMore(resources, name, amount) == get(resources, name) > amount

\* Resources::has
has(resources, name, amount) == get(resources, name) >= amount

\* Resources::can_consume_all
can_consume_all(resources, requirements) ==
    \A name \in DOMAIN requirements : has(resources, name, requirements[name])

RECURSIVE AddKeys(_, _, _, _)
AddKeys(resources, additions, keys, sign) ==
    IF keys = <<>> THEN resources
    ELSE AddKeys(add(resources, Head(keys), sign * additions[Head(keys)]),
                 additions, Tail(keys), sign)

\* Resources::add_all, iterating the additions in order ord
add_all(resources, additions, ord) ==
    AddKeys(resources, additions, Keys(additions, ord), 1)

\* the loop `for (r, a) in &consumes { resources.add(r, -a) }`
sub_all(resources, subtractions, ord) ==
    AddKeys(resources, subtractions, Keys(subtractions, ord), -1)

-----------------------------------------------------------------------------
(* System (types/system.rs) *)

\* System::can_run
can_run(system, resources) ==
    IF IsSome(system.consumes) THEN can_consume_all(resources, system.consumes[1])
    ELSE TRUE

RECURSIVE SumBonus(_, _)
SumBonus(boosts, current_tick) ==
    IF boosts = <<>> THEN 0
    ELSE (IF Head(boosts).expires_at_tick > current_tick THEN Head(boosts).bonus ELSE 0)
         + SumBonus(Tail(boosts), current_tick)

TotalBonusThroughExpiry(system, current_tick) ==
    SumBonus(system.corpse_boosts, current_tick - 1)

\* System::total_corpse_bonus
total_corpse_bonus(system, current_tick) == SumBonus(system.corpse_boosts, current_tick)

\* System::expire_corpse_boosts
expire_corpse_boosts(system, current_tick) ==
    [system EXCEPT !.corpse_boosts =
        SelectSeq(@, LAMBDA b : b.expires_at_tick > current_tick)]

\* System::disable
disable(system) ==
    IF system.original_generates = None
    THEN [system EXCEPT !.original_generates = system.generates,
                        !.original_consumes = system.consumes,
                        !.generates = None,
                        !.consumes = None]
    ELSE system

EnableGeneratesOnly(system) ==
    [system EXCEPT
        !.generates = IF IsSome(system.original_generates)
                      THEN system.original_generates ELSE @,
        !.original_generates = None,
        !.original_consumes = None]

\* System::enable
enable(system) ==
    [system EXCEPT
        !.generates = IF IsSome(system.original_generates)
                      THEN system.original_generates ELSE @,
        !.consumes = IF IsSome(system.original_consumes)
                     THEN system.original_consumes ELSE @,
        !.original_generates = None,
        !.original_consumes = None]

\* System::is_disabled
is_disabled(system) == IsSome(system.original_generates)

\* System::new_generator
new_generator(generates) ==
    [system_type |-> "generator", generates |-> Some(generates), consumes |-> None,
     corpse_boosts |-> <<>>, original_generates |-> None, original_consumes |-> None]

\* System::new_converter
new_converter(consumes, generates) ==
    [system_type |-> "converter", generates |-> Some(generates),
     consumes |-> Some(consumes),
     corpse_boosts |-> <<>>, original_generates |-> None, original_consumes |-> None]

\* a system without rate maps, as the tests build queen_chamber and receiver
bare_system(system_type) ==
    [system_type |-> system_type, generates |-> None, consumes |-> None,
     corpse_boosts |-> <<>>, original_generates |-> None, original_consumes |-> None]

-----------------------------------------------------------------------------
(* Tile (types/tile.rs) *)

\* Tile::new_empty
new_empty == [tile_type |-> "empty", contamination |-> None, blighted |-> None,
              blight_ticks_remaining |-> None]

\* Tile::new_compost
new_compost == [tile_type |-> "compost", contamination |-> Some(0),
                blighted |-> Some(FALSE), blight_ticks_remaining |-> Some(0)]

\* Tile::is_blighted
is_blighted(tile) == UnwrapOr(tile.blighted, FALSE)

AddContaminationUncapped(tile, amount) ==
    [tile EXCEPT !.contamination = Some(UnwrapOr(tile.contamination, 0) + amount)]

\* Tile::add_contamination
add_contamination(tile, amount) ==
    [tile EXCEPT !.contamination =
        Some(Min(UnwrapOr(tile.contamination, 0) + amount, MAX_CONTAMINATION))]

\* Tile::start_blight
start_blight(tile, duration_ticks) ==
    [tile EXCEPT !.blighted = Some(TRUE),
                 !.blight_ticks_remaining = Some(duration_ticks)]

\* Tile::tick_blight, the value returned: the blight just cleared
tick_blight_cleared(tile) ==
    is_blighted(tile) /\ UnwrapOr(tile.blight_ticks_remaining, 0) <= 1

TickBlightClearsEarly(tile) ==
    IF ~is_blighted(tile) THEN tile
    ELSE IF UnwrapOr(tile.blight_ticks_remaining, 0) <= 2
         THEN [tile EXCEPT !.blighted = Some(FALSE),
                           !.blight_ticks_remaining = Some(0),
                           !.contamination = Some(0)]
         ELSE [tile EXCEPT !.blight_ticks_remaining =
                               Some(UnwrapOr(tile.blight_ticks_remaining, 0) - 1)]

\* Tile::tick_blight, the tile afterwards
tick_blight(tile) ==
    IF ~is_blighted(tile) THEN tile
    ELSE IF UnwrapOr(tile.blight_ticks_remaining, 0) <= 1
         THEN [tile EXCEPT !.blighted = Some(FALSE),
                           !.blight_ticks_remaining = Some(0),
                           !.contamination = Some(0)]
         ELSE [tile EXCEPT !.blight_ticks_remaining =
                               Some(UnwrapOr(tile.blight_ticks_remaining, 0) - 1)]

-----------------------------------------------------------------------------
(* Entity (types/entity.rs) *)

\* Entity::new_worker
new_worker(id, tile) ==
    [id |-> id, entity_type |-> "ant", role |-> Some("worker"), subtype |-> None,
     name |-> None, tile |-> tile, age |-> 0, hunger |-> 1000000, hunger_rate |-> 1000,
     max_age |-> 7200, food |-> Some("fungus"),
     processing_corpse |-> None, processing_ticks |-> None,
     gift_on_death |-> None, generates |-> None, transforms |-> None]

\* Entity::new_undertaker
new_undertaker(id, tile) ==
    [id |-> id, entity_type |-> "ant", role |-> Some("undertaker"), subtype |-> None,
     name |-> None, tile |-> tile, age |-> 0, hunger |-> 1000000, hunger_rate |-> 1500,
     max_age |-> 7200, food |-> Some("fungus"),
     processing_corpse |-> Some(FALSE), processing_ticks |-> Some(0),
     gift_on_death |-> None, generates |-> None, transforms |-> None]

\* Entity::new_wanderer
new_wanderer(id) ==
    [id |-> id, entity_type |-> "visitor", role |-> None, subtype |-> Some("wanderer"),
     name |-> Some("A Wanderer"), tile |-> "receiver", age |-> 0, hunger |-> 1000000, hunger_rate |-> 0,
     max_age |-> 1800, food |-> None,
     processing_corpse |-> None, processing_ticks |-> None,
     gift_on_death |-> Some(Entry("strange_matter", 10000)), generates |-> None,
     transforms |-> None]

\* Entity::new_observer
new_observer(id) ==
    [id |-> id, entity_type |-> "visitor", role |-> None, subtype |-> Some("observer"),
     name |-> Some("An Observer"), tile |-> "receiver", age |-> 0, hunger |-> 1000000, hunger_rate |-> 500,
     max_age |-> 3600, food |-> Some("crystals"),
     processing_corpse |-> None, processing_ticks |-> None,
     gift_on_death |-> None, generates |-> Some(Entry("insight", 10)),
     transforms |-> None]

\* Entity::new_hungry
new_hungry(id) ==
    [id |-> id, entity_type |-> "visitor", role |-> None, subtype |-> Some("hungry"),
     name |-> Some("A Hungry Thing"), tile |-> "receiver", age |-> 0, hunger |-> 1000000, hunger_rate |-> 5000,
     max_age |-> 900, food |-> Some("influence"),
     processing_corpse |-> None, processing_ticks |-> None,
     gift_on_death |-> None, generates |-> None, transforms |-> Some(TRUE)]

CauseStrictlyNegative(entity) ==
    IF entity.hunger < 0 THEN Some("starvation")
    ELSE IF entity.age >= entity.max_age THEN Some("old_age")
    ELSE None

CauseStrictlyOlder(entity) ==
    IF entity.hunger <= 0 THEN Some("starvation")
    ELSE IF entity.age > entity.max_age THEN Some("old_age")
    ELSE None

\* Entity::cause_of_death
cause_of_death(entity) ==
    IF entity.hunger <= 0 THEN Some("starvation")
    ELSE IF entity.age >= entity.max_age THEN Some("old_age")
    ELSE None

-----------------------------------------------------------------------------
(* Graveyard (types/graveyard.rs) *)

\* Corpse, as the engine builds it from a dead entity
Corpse(entity, death_tick, cause) ==
    [entity_id |-> entity.id, entity_type |-> entity.entity_type,
     death_tick |-> death_tick, cause |-> cause, tile |-> entity.tile]

\* Graveyard::add_corpse
add_corpse(graveyard, corpse) == [graveyard EXCEPT !.corpses = Append(@, corpse)]

TakeNewestCorpse(graveyard) ==
    IF graveyard.corpses = <<>> THEN graveyard
    ELSE [graveyard EXCEPT !.corpses = SubSeq(@, 1, Len(@) - 1)]

\* Graveyard::take_corpse, the graveyard afterwards
take_corpse(graveyard) ==
    IF graveyard.corpses = <<>> THEN graveyard
    ELSE [graveyard EXCEPT !.corpses = Tail(@)]

\* Graveyard::mark_processed
mark_processed(graveyard) == [graveyard EXCEPT !.total_processed = @ + 1]

\* Graveyard::has_corpses
has_corpses(graveyard) == graveyard.corpses # <<>>

-----------------------------------------------------------------------------
(* GameState (types/state.rs) *)

\* GameState::has_system
has_system(s, system_id) == system_id \in DOMAIN s.systems

\* GameMap::get_tile
get_tile(s, id) == IF id \in DOMAIN s.map.tiles THEN Some(s.map.tiles[id]) ELSE None

\* GameState::default
GameState_default ==
    [tick |-> 0,
     resources |-> EmptyMap,
     systems |-> EmptyMap,
     entities |-> <<>>,
     map |-> [tiles |-> Entry("origin", new_empty)],
     queues |-> [actions |-> <<>>, events |-> <<>>],
     meta |-> [boredom |-> 0, receiver_silent |-> FALSE,
               receiver_failed_tick |-> None, goals |-> EmptyMap],
     graveyard |-> [corpses |-> <<>>, total_processed |-> 0],
     last_save_timestamp |-> None]

\* TickEngine::new.  drawn is not a field of the engine: it counts the draws
\* made by the generators of all its ticks so far and is read by no phase
TickEngine_new(seed) ==
    [seed |-> seed, last_spawn_tick |-> 0, last_summon_tick |-> 0, drawn |-> 0]

-----------------------------------------------------------------------------
(* The tick pipeline (engine.rs).  A phase maps a context                  *)
(*   [s: GameState, e: TickEngine, ev: events pushed so far, rng,          *)
(*    steps: what the entities phase saw and did for each entity,          *)
(*    draws: the words drawn from rng, in order,                           *)
(*    after: what each phase that has run left behind]                     *)
(* to the context after the phase; ord is the HashMap iteration order.     *)

PushStampedBeforeIncrement(c, event) ==
    [c EXCEPT !.ev = Append(@, [tick |-> c.s.tick - 1] @@ event)]

\* TickEvents::push
push(c, event) == [c EXCEPT !.ev = Append(@, [tick |-> c.s.tick] @@ event)]

\* the context after one draw of c.rng, made for purpose what
Draw(c, what) ==
    [c EXCEPT !.rng = Drawn(c.rng),
              !.draws = Append(@, [what |-> what, word |-> NextWord(c.rng)])]

RECURSIVE ActionsLoop(_, _, _, _)
ActionsLoop(c, actions, remaining, ord) ==
    IF actions = <<>> THEN [c EXCEPT !.s.queues.actions = remaining]
    ELSE LET action == Head(actions)
         IN  IF action.ticks_remaining <= 1
             THEN LET c1 == push(c, [kind |-> "ActionComplete",
                                     action_id |-> action.id,
                                     action_type |-> action.action_type])
                      c2 == IF IsSome(action.effects) /\ IsSome(action.effects[1].resources)
                            THEN [c1 EXCEPT !.s.resources =
                                    add_all(@, action.effects[1].resources[1], ord)]
                            ELSE c1
                  IN  ActionsLoop(c2, Tail(actions), remaining, ord)
             ELSE ActionsLoop(c, Tail(actions),
                              Append(remaining, [action EXCEPT !.ticks_remaining = @ - 1]),
                              ord)

RECURSIVE ActionsLoopLate(_, _, _, _)
ActionsLoopLate(c, actions, remaining, ord) ==
    IF actions = <<>> THEN [c EXCEPT !.s.queues.actions = remaining]
    ELSE LET action == Head(actions)
         IN  IF action.ticks_remaining = 0
             THEN LET c1 == push(c, [kind |-> "ActionComplete",
                                     action_id |-> action.id,
                                     action_type |-> action.action_type])
                      c2 == IF IsSome(action.effects) /\ IsSome(action.effects[1].resources)
                            THEN [c1 EXCEPT !.s.resources =
                                    add_all(@, action.effects[1].resources[1], ord)]
                            ELSE c1
                  IN  ActionsLoopLate(c2, Tail(actions), remaining, ord)
             ELSE ActionsLoopLate(c, Tail(actions),
                                  Append(remaining, [action EXCEPT !.ticks_remaining = @ - 1]),
                                  ord)

ProcessActionsLate(c, ord) == ActionsLoopLate(c, c.s.queues.actions, <<>>, ord)

\* TickEngine::process_actions
process_actions(c, ord) == ActionsLoop(c, c.s.queues.actions, <<>>, ord)

\* the (consumes, generates) pair a runnable system applies this tick
SystemOperation(id, system, tick) ==
    LET consumes == UnwrapOr(system.consumes, EmptyMap)
        base == UnwrapOr(system.generates, EmptyMap)
        bonus == total_corpse_bonus(system, tick)
        generates == IF id = "compost_heap" /\ bonus > 0
                     THEN add(base, "nutrients", bonus) ELSE base
    IN  [system_id |-> id, consumes |-> consumes, generates |-> generates]

RECURSIVE CollectOperations(_, _, _, _)
\* the operations vector: the systems that are not disabled and can run on
\* the resources as they are before any system is applied
CollectOperations(systems, resources, tick, ids) ==
    IF ids = <<>> THEN <<>>
    ELSE LET id == Head(ids)
             rest == CollectOperations(systems, resources, tick, Tail(ids))
         IN  IF ~is_disabled(systems[id]) /\ can_run(systems[id], resources)
             THEN <<SystemOperation(id, systems[id], tick)>> \o rest
             ELSE rest

\* one operation applied: consume, generate, report
ApplyOperation(c, op, ord) ==
    LET c1 == [c EXCEPT !.s.resources =
                  add_all(sub_all(@, op.consumes, ord), op.generates, ord)]
    IN  IF op.consumes # EmptyMap \/ op.generates # EmptyMap
        THEN push(c1, [kind |-> "SystemProduced", system_id |-> op.system_id,
                       produced |-> op.generates, consumed |-> op.consumes])
        ELSE c1

RECURSIVE ApplyOperations(_, _, _)
ApplyOperations(c, ops, ord) ==
    IF ops = <<>> THEN c
    ELSE ApplyOperations(ApplyOperation(c, Head(ops), ord), Tail(ops), ord)

\* the loop that prunes the expired corpse boosts of every system
ExpireAll(c) ==
    [c EXCEPT !.s.systems =
        [id \in DOMAIN @ |-> expire_corpse_boosts(@[id], c.s.tick)]]

ProcessSystemsAlways(c, ord) ==
    ExpireAll(ApplyOperations(
        c,
        [i \in DOMAIN Keys(c.s.systems, ord) |->
            SystemOperation(Keys(c.s.systems, ord)[i],
                            c.s.systems[Keys(c.s.systems, ord)[i]], c.s.tick)],
        ord))

\* TickEngine::process_systems
process_systems(c, ord) ==
    ExpireAll(ApplyOperations(
        c,
        CollectOperations(c.s.systems, c.s.resources, c.s.tick, Keys(c.s.systems, ord)),
        ord))


\* the entity after aging and hunger depletion
Depleted(entity) ==
    [entity EXCEPT !.age = @ + 1, !.hunger = @ - entity.hunger_rate]

\* whether the entity takes the Hungry-visitor-eats-influence branch
HungrySpecial(entity) ==
    entity.food = Some("influence") /\ entity.subtype = Some("hungry")

EatAtOrBelowThreshold(c, entity, ord) ==
    IF entity.hunger <= HUNGER_THRESHOLD_EAT /\ IsSome(entity.food)
          /\ ~HungrySpecial(entity) /\ get(c.s.resources, entity.food[1]) >= ONE_FOOD
    THEN LET fed == [entity EXCEPT !.hunger =
                        Min(@ + HUNGER_GAIN_FROM_EATING, MAX_HUNGER)]
         IN  [c |-> push([c EXCEPT !.s.resources = add(@, entity.food[1], -ONE_FOOD)],
                         [kind |-> "EntityAte", entity_id |-> entity.id,
                          food |-> entity.food[1], hunger_after |-> fed.hunger]),
              entity |-> fed]
    ELSE [c |-> c, entity |-> entity]

\* the eating step of process_entities for one (already depleted) entity:
\* the context and the entity afterwards
Eat(c, entity, ord) ==
    IF entity.hunger < HUNGER_THRESHOLD_EAT /\ IsSome(entity.food)
    THEN IF HungrySpecial(entity)
         THEN IF get(c.s.resources, "influence") >= HUNGRY_INFLUENCE_CONSUME
              THEN LET fed == [entity EXCEPT !.hunger =
                                  Min(@ + HUNGRY_HUNGER_GAIN, MAX_HUNGER)]
                       c1 == [c EXCEPT !.s.resources =
                                  add(@, "influence", -HUNGRY_INFLUENCE_CONSUME)]
                   IN  IF entity.transforms = Some(TRUE)
                       THEN [c |-> push([c1 EXCEPT !.s.resources =
                                   add(@, "strange_matter", HUNGRY_STRANGE_MATTER_PRODUCE)],
                                 [kind |-> "InfluenceTransformed",
                                  visitor_id |-> entity.id,
                                  influence_consumed |-> HUNGRY_INFLUENCE_CONSUME,
                                  strange_matter_produced |-> HUNGRY_STRANGE_MATTER_PRODUCE]),
                             entity |-> fed]
                       ELSE [c |-> c1, entity |-> fed]
              ELSE [c |-> c, entity |-> entity]
         ELSE IF get(c.s.resources, entity.food[1]) >= ONE_FOOD
              THEN LET fed == [entity EXCEPT !.hunger =
                                  Min(@ + HUNGER_GAIN_FROM_EATING, MAX_HUNGER)]
                   IN  [c |-> push([c EXCEPT !.s.resources =
                                        add(@, entity.food[1], -ONE_FOOD)],
                                   [kind |-> "EntityAte", entity_id |-> entity.id,
                                    food |-> entity.food[1],
                                    hunger_after |-> fed.hunger]),
                        entity |-> fed]
              ELSE [c |-> c, entity |-> entity]
    ELSE [c |-> c, entity |-> entity]

DieGivingTwice(c, entity, cause, ord) ==
    IF entity.entity_type = "visitor"
    THEN LET c1 == IF IsSome(entity.gift_on_death)
                   THEN [c EXCEPT !.s.resources =
                            add_all(add_all(@, entity.gift_on_death[1], ord),
                                    entity.gift_on_death[1], ord)]
                   ELSE c
         IN  push(c1, [kind |-> "VisitorDeparted", visitor_id |-> entity.id,
                       visitor_type |-> UnwrapOr(entity.subtype, "wanderer"),
                       name |-> UnwrapOr(entity.name, ""),
                       gift |-> entity.gift_on_death])
    ELSE push([c EXCEPT !.s.graveyard = add_corpse(@, Corpse(entity, c.s.tick, cause))],
              [kind |-> "EntityDied", entity_id |-> entity.id,
               entity_type |-> entity.entity_type, cause |-> cause,
               tile |-> entity.tile])

\* the death branch of process_entities: a visitor departs with its gift,
\* an ant becomes a corpse
Die(c, entity, cause, ord) ==
    IF entity.entity_type = "visitor"
    THEN LET c1 == IF IsSome(entity.gift_on_death)
                   THEN [c EXCEPT !.s.resources =
                            add_all(@, entity.gift_on_death[1], ord)]
                   ELSE c
         IN  push(c1, [kind |-> "VisitorDeparted", visitor_id |-> entity.id,
                       visitor_type |-> UnwrapOr(entity.subtype, "wanderer"),
                       name |-> UnwrapOr(entity.name, ""),
                       gift |-> entity.gift_on_death])
    ELSE push([c EXCEPT !.s.graveyard = add_corpse(@, Corpse(entity, c.s.tick, cause))],
              [kind |-> "EntityDied", entity_id |-> entity.id,
               entity_type |-> entity.entity_type, cause |-> cause,
               tile |-> entity.tile])

RECURSIVE EntitiesLoop(_, _, _, _)
EntitiesLoop(c, entities, surviving, ord) ==
    IF entities = <<>> THEN [c EXCEPT !.s.entities = surviving]
    ELSE LET hungry == Depleted(Head(entities))
             stock == IF IsSome(hungry.food) THEN get(c.s.resources, hungry.food[1]) ELSE 0
             eaten == Eat(c, hungry, ord)
             entity == eaten.entity
             cause == cause_of_death(entity)
             step == [id |-> entity.id, entity_type |-> entity.entity_type,
                      special |-> HungrySpecial(hungry), food |-> hungry.food,
                      hunger_dep |-> hungry.hunger, stock |-> stock,
                      hunger_out |-> entity.hunger,
                      stock_out |-> IF IsSome(hungry.food)
                                    THEN get(eaten.c.s.resources, hungry.food[1]) ELSE 0,
                      age |-> entity.age, max_age |-> entity.max_age,
                      cause |-> cause]
             c1 == [eaten.c EXCEPT !.steps = Append(@, step)]
         IN  IF IsSome(cause)
             THEN EntitiesLoop(Die(c1, entity, cause[1], ord), Tail(entities), surviving, ord)
             ELSE EntitiesLoop(c1, Tail(entities), Append(surviving, entity), ord)

\* TickEngine::process_entities
process_entities(c, ord) == EntitiesLoop(c, c.s.entities, <<>>, ord)


\* the position of the first entity with the given id (iter_mut().find), 0 if none
RECURSIVE FindFrom(_, _, _)
FindFrom(entities, id, i) ==
    IF i > Len(entities) THEN 0
    ELSE IF entities[i].id = id THEN i
    ELSE FindFrom(entities, id, i + 1)

\* one undertaker's turn in process_undertakers
UndertakerTurn(c, undertaker_id) ==
    LET i == FindFrom(c.s.entities, undertaker_id, 1)
    IN  IF i = 0 THEN c
        ELSE
        LET undertaker == c.s.entities[i]
            processing == UnwrapOr(undertaker.processing_corpse, FALSE)
            ticks == UnwrapOr(undertaker.processing_ticks, 0)
            tick == c.s.tick
        IN  IF processing
            THEN IF ticks + 1 >= CORPSE_PROCESSING_TICKS
                 THEN LET c1 == [c EXCEPT !.s.entities[i].processing_corpse = Some(FALSE),
                                          !.s.entities[i].processing_ticks = Some(0)]
                          c2 == IF has_system(c1.s, "compost_heap")
                                THEN [c1 EXCEPT !.s.systems["compost_heap"].corpse_boosts =
                                        Append(@, [expires_at_tick |->
                                                       tick + CORPSE_BOOST_DURATION,
                                                   bonus |-> CORPSE_NUTRIENT_BOOST])]
                                ELSE c1
                      IN  IF "compost" \in DOMAIN c2.s.map.tiles
                          THEN LET tile == add_contamination(c2.s.map.tiles["compost"],
                                                             CONTAMINATION_PER_CORPSE)
                                   c3 == [c2 EXCEPT !.s.map.tiles["compost"] = tile,
                                                    !.s.graveyard = mark_processed(@)]
                               IN  push(c3, [kind |-> "CorpseProcessed",
                                             undertaker_id |-> undertaker_id,
                                             total_processed |->
                                                 c3.s.graveyard.total_processed,
                                             contamination |->
                                                 UnwrapOr(tile.contamination, 0)])
                          ELSE c2
                 ELSE [c EXCEPT !.s.entities[i].processing_ticks = Some(ticks + 1)]
            ELSE IF has_corpses(c.s.graveyard)
                 THEN [c EXCEPT !.s.graveyard = take_corpse(@),
                                !.s.entities[i].processing_corpse = Some(TRUE),
                                !.s.entities[i].processing_ticks = Some(0)]
                 ELSE c

RECURSIVE UndertakersLoop(_, _)
UndertakersLoop(c, ids) ==
    IF ids = <<>> THEN c
    ELSE UndertakersLoop(UndertakerTurn(c, Head(ids)), Tail(ids))

\* the ids of the entities with the Undertaker role, in list order
UndertakerIds(entities) ==
    LET picked == SelectSeq(entities, LAMBDA e : e.role = Some("undertaker"))
    IN  [i \in 1..Len(picked) |-> picked[i].id]

ProcessUndertakersBlightedToo(c, ord) ==
    UndertakersLoop(c, UndertakerIds(c.s.entities))

\* TickEngine::process_undertakers
process_undertakers(c, ord) ==
    IF "compost" \in DOMAIN c.s.map.tiles /\ is_blighted(c.s.map.tiles["compost"])
    THEN c
    ELSE UndertakersLoop(c, UndertakerIds(c.s.entities))

RECURSIVE BlightKillLoop(_, _, _)
\* the loop of process_blight that kills the entities on the compost tile
BlightKillLoop(c, entities, surviving) ==
    IF entities = <<>> THEN [c EXCEPT !.s.entities = surviving]
    ELSE LET entity == Head(entities)
         IN  IF entity.tile = "compost"
             THEN BlightKillLoop(
                      [push(c, [kind |-> "BlightKill", entity_id |-> entity.id,
                                tile |-> "compost"])
                          EXCEPT !.s.graveyard =
                              add_corpse(@, Corpse(entity, c.s.tick, "blight"))],
                      Tail(entities), surviving)
             ELSE BlightKillLoop(c, Tail(entities), Append(surviving, entity))

BlightStrikeKeepsBoosts(c, contamination) ==
    LET c1 == [c EXCEPT !.s.map.tiles["compost"] = start_blight(@, BLIGHT_DURATION)]
        c2 == push(c1, [kind |-> "BlightStruck", tile |-> "compost",
                        contamination |-> contamination,
                        duration_ticks |-> BLIGHT_DURATION])
        c3 == IF has_system(c2.s, "compost_heap")
              THEN [c2 EXCEPT !.s.systems["compost_heap"] = disable(@)]
              ELSE c2
    IN  BlightKillLoop(c3, c3.s.entities, <<>>)

\* the strike branch of process_blight
BlightStrike(c, contamination) ==
    LET c1 == [c EXCEPT !.s.map.tiles["compost"] = start_blight(@, BLIGHT_DURATION)]
        c2 == push(c1, [kind |-> "BlightStruck", tile |-> "compost",
                        contamination |-> contamination,
                        duration_ticks |-> BLIGHT_DURATION])
        c3 == IF has_system(c2.s, "compost_heap")
              THEN [c2 EXCEPT !.s.systems["compost_heap"] =
                       [disable(@) EXCEPT !.corpse_boosts = <<>>]]
              ELSE c2
    IN  BlightKillLoop(c3, c3.s.entities, <<>>)

\* TickEngine::process_blight
process_blight(c, ord) ==
    IF "compost" \notin DOMAIN c.s.map.tiles THEN c
    ELSE LET tile == c.s.map.tiles["compost"]
         IN  IF is_blighted(tile)
             THEN LET c1 == [c EXCEPT !.s.map.tiles["compost"] = tick_blight(tile)]
                  IN  IF tick_blight_cleared(tile)
                      THEN LET c2 == push(c1, [kind |-> "BlightCleared",
                                               tile |-> "compost"])
                           IN  IF has_system(c2.s, "compost_heap")
                               THEN [c2 EXCEPT !.s.systems["compost_heap"] = enable(@)]
                               ELSE c2
                      ELSE c1
             ELSE LET contamination == UnwrapOr(tile.contamination, 0)
                  IN  IF contamination > 0
                      THEN IF chance(c.rng, contamination)
                           THEN BlightStrike(Draw(c, "blight"), contamination)
                           ELSE Draw(c, "blight")
                      ELSE c


\* both spawn branches of process_queen: two ids are drawn, a Worker and an
\* Undertaker are added at origin, the costs are spent, the tick is recorded
SpawnPair(c, kind) ==
    LET d1 == Draw(c, "worker_id")
        worker_id == entity_id(c.rng)
        d2 == Draw(d1, "undertaker_id")
        undertaker_id == entity_id(d1.rng)
        c1 == [d2 EXCEPT
                 !.s.entities = @ \o <<new_worker(worker_id, "origin"),
                                       new_undertaker(undertaker_id, "origin")>>,
                 !.s.resources = add(add(@, "nutrients", -SPAWN_COST_NUTRIENTS),
                                     "fungus", -SPAWN_COST_FUNGUS),
                 !.e.last_spawn_tick = c.s.tick]
    IN  IF kind = "EmergencySpawn"
        THEN push(c1, [kind |-> "EmergencySpawn", worker_id |-> worker_id,
                       undertaker_id |-> undertaker_id])
        ELSE push(c1, [kind |-> "AntsSpawned", worker_id |-> worker_id,
                       undertaker_id |-> undertaker_id,
                       nutrients_consumed |-> SPAWN_COST_NUTRIENTS,
                       fungus_consumed |-> SPAWN_COST_FUNGUS])

ProcessQueenIntervalExceeded(c, ord) ==
    IF ~has_system(c.s, "queen_chamber") THEN c
    ELSE IF /\ Len(c.s.entities) = 0
            /\ get(c.s.resources, "nutrients") >= MIN_RESOURCES_TO_SPAWN
            /\ get(c.s.resources, "fungus") >= MIN_RESOURCES_TO_SPAWN
         THEN SpawnPair(c, "EmergencySpawn")
    ELSE IF c.e.last_spawn_tick = 0 THEN [c EXCEPT !.e.last_spawn_tick = c.s.tick]
    ELSE IF c.s.tick - c.e.last_spawn_tick <= SPAWN_INTERVAL_TICKS THEN c
    ELSE IF get(c.s.resources, "nutrients") < MIN_RESOURCES_TO_SPAWN
              \/ get(c.s.resources, "fungus") < MIN_RESOURCES_TO_SPAWN
         THEN c
    ELSE SpawnPair(c, "AntsSpawned")

ProcessQueenCooldownFirst(c, ord) ==
    IF ~has_system(c.s, "queen_chamber") THEN c
    ELSE IF c.e.last_spawn_tick # 0
              /\ c.s.tick - c.e.last_spawn_tick < SPAWN_INTERVAL_TICKS THEN c
    ELSE IF get(c.s.resources, "nutrients") < MIN_RESOURCES_TO_SPAWN
              \/ get(c.s.resources, "fungus") < MIN_RESOURCES_TO_SPAWN
         THEN IF c.e.last_spawn_tick = 0
              THEN [c EXCEPT !.e.last_spawn_tick = c.s.tick] ELSE c
    ELSE IF Len(c.s.entities) = 0 THEN SpawnPair(c, "EmergencySpawn")
    ELSE IF c.e.last_spawn_tick = 0 THEN [c EXCEPT !.e.last_spawn_tick = c.s.tick]
    ELSE SpawnPair(c, "AntsSpawned")

\* TickEngine::process_queen
process_queen(c, ord) ==
    IF ~has_system(c.s, "queen_chamber") THEN c
    ELSE LET tick == c.s.tick
             nutrients == get(c.s.resources, "nutrients")
             fungus == get(c.s.resources, "fungus")
             is_emergency == /\ Len(c.s.entities) = 0
                             /\ nutrients >= MIN_RESOURCES_TO_SPAWN
                             /\ fungus >= MIN_RESOURCES_TO_SPAWN
         IN  IF is_emergency THEN SpawnPair(c, "EmergencySpawn")
             ELSE IF c.e.last_spawn_tick = 0
                  THEN [c EXCEPT !.e.last_spawn_tick = tick]
             ELSE IF tick - c.e.last_spawn_tick < SPAWN_INTERVAL_TICKS THEN c
             ELSE IF nutrients < MIN_RESOURCES_TO_SPAWN \/ fungus < MIN_RESOURCES_TO_SPAWN
                  THEN c
             ELSE SpawnPair(c, "AntsSpawned")

\* `goal["last_maintained"] = json!(tick)` on the receiver_maintenance goal
StampMaintained(c) ==
    IF "receiver_maintenance" \in DOMAIN c.s.meta.goals
    THEN [c EXCEPT !.s.meta.goals["receiver_maintenance"] =
             [k \in (DOMAIN @) \cup {"last_maintained"} |->
                 IF k = "last_maintained" THEN c.s.tick ELSE @[k]]]
    ELSE c

CheckMaintenanceRepeatsSilence(c) ==
    IF "receiver_maintenance" \notin DOMAIN c.s.meta.goals THEN c
    ELSE
    LET tick == c.s.tick
        maint_goal == c.s.meta.goals["receiver_maintenance"]
        last_maintained == IF "last_maintained" \in DOMAIN maint_goal
                           THEN maint_goal["last_maintained"] ELSE tick
        interval == IF "maintenance_interval_ticks" \in DOMAIN maint_goal
                    THEN maint_goal["maintenance_interval_ticks"]
                    ELSE MAINTENANCE_INTERVAL
        ticks_since_maint == Max(tick - last_maintained, 0)
        c1 == IF ticks_since_maint >= interval
              THEN IF get(c.s.resources, "strange_matter") >= MAINTENANCE_COST_STRANGE_MATTER
                   THEN StampMaintained(
                            [c EXCEPT !.s.resources =
                                add(@, "strange_matter", -MAINTENANCE_COST_STRANGE_MATTER)])
                   ELSE push([c EXCEPT !.s.meta.receiver_silent = TRUE,
                                       !.s.meta.receiver_failed_tick = Some(tick)],
                             [kind |-> "ReceiverSilent"])
              ELSE c
    IN  IF c1.s.meta.receiver_silent
           /\ get(c1.s.resources, "strange_matter") >= MAINTENANCE_COST_STRANGE_MATTER
        THEN push(StampMaintained(
                      [c1 EXCEPT !.s.resources =
                           add(@, "strange_matter", -MAINTENANCE_COST_STRANGE_MATTER),
                                 !.s.meta.receiver_silent = FALSE]),
                  [kind |-> "ReceiverRestored"])
        ELSE c1

\* TickEngine::check_receiver_maintenance
check_receiver_maintenance(c) ==
    IF "receiver_maintenance" \notin DOMAIN c.s.meta.goals THEN c
    ELSE
    LET tick == c.s.tick
        maint_goal == c.s.meta.goals["receiver_maintenance"]
        last_maintained == IF "last_maintained" \in DOMAIN maint_goal
                           THEN maint_goal["last_maintained"] ELSE tick
        interval == IF "maintenance_interval_ticks" \in DOMAIN maint_goal
                    THEN maint_goal["maintenance_interval_ticks"]
                    ELSE MAINTENANCE_INTERVAL
        ticks_since_maint == Max(tick - last_maintained, 0)
        c1 == IF ticks_since_maint >= interval
              THEN IF get(c.s.resources, "strange_matter") >= MAINTENANCE_COST_STRANGE_MATTER
                   THEN StampMaintained(
                            [c EXCEPT !.s.resources =
                                add(@, "strange_matter", -MAINTENANCE_COST_STRANGE_MATTER)])
                   ELSE IF ~c.s.meta.receiver_silent
                        THEN push([c EXCEPT !.s.meta.receiver_silent = TRUE,
                                            !.s.meta.receiver_failed_tick = Some(tick)],
                                  [kind |-> "ReceiverSilent"])
                        ELSE c
              ELSE c
    IN  IF c1.s.meta.receiver_silent
           /\ get(c1.s.resources, "strange_matter") >= MAINTENANCE_COST_STRANGE_MATTER
        THEN push(StampMaintained(
                      [c1 EXCEPT !.s.resources =
                           add(@, "strange_matter", -MAINTENANCE_COST_STRANGE_MATTER),
                                 !.s.meta.receiver_silent = FALSE]),
                  [kind |-> "ReceiverRestored"])
        ELSE c1

SummonLeavesVisitorOutside(c) ==
    LET tick == c.s.tick
        c1 == [c EXCEPT !.s.resources = add(@, "influence", -SUMMON_COST),
                        !.e.last_summon_tick = tick]
        success == chance(c1.rng, SUMMON_CHANCE)
        c2 == push(Draw(c1, "summon"),
                   [kind |-> "InfluenceSpent", amount |-> SUMMON_COST,
                    success |-> success])
    IN  IF success
        THEN LET visitor_type_idx == range(c2.rng, 0, 2)
                 c3 == Draw(c2, "visitor_type")
                 id == visitor_id(c3.rng)
                 c4 == Draw(c3, "visitor_id")
                 visitor == IF visitor_type_idx = 0 THEN new_wanderer(id)
                            ELSE IF visitor_type_idx = 1 THEN new_observer(id)
                            ELSE new_hungry(id)
             IN  push(c4,
                      [kind |-> "VisitorArrived", visitor_id |-> id,
                       visitor_type |-> visitor.subtype[1],
                       name |-> UnwrapOr(visitor.name, "")])
        ELSE push(c2, [kind |-> "SummoningFailed"])

\* the summon attempt of process_receiver, once cost and cooldown allow it
Summon(c) ==
    LET tick == c.s.tick
        c1 == [c EXCEPT !.s.resources = add(@, "influence", -SUMMON_COST),
                        !.e.last_summon_tick = tick]
        success == chance(c1.rng, SUMMON_CHANCE)
        c2 == push(Draw(c1, "summon"),
                   [kind |-> "InfluenceSpent", amount |-> SUMMON_COST,
                    success |-> success])
    IN  IF success
        THEN LET visitor_type_idx == range(c2.rng, 0, 2)
                 c3 == Draw(c2, "visitor_type")
                 id == visitor_id(c3.rng)
                 c4 == Draw(c3, "visitor_id")
                 visitor == IF visitor_type_idx = 0 THEN new_wanderer(id)
                            ELSE IF visitor_type_idx = 1 THEN new_observer(id)
                            ELSE new_hungry(id)
             IN  push([c4 EXCEPT !.s.entities = Append(@, visitor)],
                      [kind |-> "VisitorArrived", visitor_id |-> id,
                       visitor_type |-> visitor.subtype[1],
                       name |-> UnwrapOr(visitor.name, "")])
        ELSE push(c2, [kind |-> "SummoningFailed"])

ProcessReceiverWhileSilent(c, ord) ==
    IF ~has_system(c.s, "receiver") THEN c
    ELSE LET c1 == check_receiver_maintenance(c)
         IN  LET c2 == IF get(c1.s.resources, "influence") > LISTENING_DRAIN
                       THEN [c1 EXCEPT !.s.resources =
                                add(@, "influence", -LISTENING_DRAIN)]
                       ELSE c1
             IN  IF get(c2.s.resources, "influence") < SUMMON_COST THEN c2
                 ELSE IF c2.e.last_summon_tick > 0
                         /\ c2.s.tick - c2.e.last_summon_tick < SUMMON_COOLDOWN
                      THEN c2
                 ELSE Summon(c2)

ProcessReceiverForgetsFailure(c, ord) ==
    IF ~has_system(c.s, "receiver") THEN c
    ELSE LET c1 == check_receiver_maintenance(c)
         IN  IF c1.s.meta.receiver_silent THEN c1
             ELSE LET c2 == IF get(c1.s.resources, "influence") > LISTENING_DRAIN
                            THEN [c1 EXCEPT !.s.resources =
                                     add(@, "influence", -LISTENING_DRAIN)]
                            ELSE c1
                  IN  IF get(c2.s.resources, "influence") < SUMMON_COST THEN c2
                      ELSE IF c2.e.last_summon_tick > 0
                              /\ c2.s.tick - c2.e.last_summon_tick < SUMMON_COOLDOWN
                           THEN c2
                      ELSE LET c3 == Summon(c2)
                           IN  IF c3.ev[Len(c3.ev)].kind = "SummoningFailed"
                               THEN [c3 EXCEPT !.e.last_summon_tick =
                                                   c2.e.last_summon_tick]
                               ELSE c3

ProcessReceiverDrainsAlways(c, ord) ==
    IF ~has_system(c.s, "receiver") THEN c
    ELSE LET c1 == check_receiver_maintenance(c)
         IN  IF c1.s.meta.receiver_silent THEN c1
             ELSE LET c2 == [c1 EXCEPT !.s.resources =
                                add(@, "influence", -LISTENING_DRAIN)]
                  IN  IF get(c2.s.resources, "influence") < SUMMON_COST THEN c2
                      ELSE IF c2.e.last_summon_tick > 0
                              /\ c2.s.tick - c2.e.last_summon_tick < SUMMON_COOLDOWN
                           THEN c2
                      ELSE Summon(c2)

\* TickEngine::process_receiver
process_receiver(c, ord) ==
    IF ~has_system(c.s, "receiver") THEN c
    ELSE LET c1 == check_receiver_maintenance(c)
         IN  IF c1.s.meta.receiver_silent THEN c1
             ELSE LET c2 == IF get(c1.s.resources, "influence") > LISTENING_DRAIN
                            THEN [c1 EXCEPT !.s.resources =
                                     add(@, "influence", -LISTENING_DRAIN)]
                            ELSE c1
                  IN  IF get(c2.s.resources, "influence") < SUMMON_COST THEN c2
                      ELSE IF c2.e.last_summon_tick > 0
                              /\ c2.s.tick - c2.e.last_summon_tick < SUMMON_COOLDOWN
                           THEN c2
                      ELSE Summon(c2)

RECURSIVE GenerateLoop(_, _, _)
\* one visitor's passive generation, resource by resource
GenerateLoop(c, entity, keys) ==
    IF keys = <<>> THEN c
    ELSE LET resource == Head(keys)
             rate == entity.generates[1][resource]
         IN  GenerateLoop(
                 push([c EXCEPT !.s.resources = add(@, resource, rate)],
                      [kind |-> "PassiveGeneration", entity_id |-> entity.id,
                       resource |-> resource, amount |-> rate]),
                 entity, Tail(keys))

RECURSIVE VisitorsLoop(_, _, _)
VisitorsLoop(c, entities, ord) ==
    IF entities = <<>> THEN c
    ELSE LET entity == Head(entities)
         IN  IF entity.entity_type = "visitor" /\ IsSome(entity.generates)
             THEN VisitorsLoop(GenerateLoop(c, entity, Keys(entity.generates[1], ord)),
                               Tail(entities), ord)
             ELSE VisitorsLoop(c, Tail(entities), ord)

RECURSIVE VisitorsLoopAnyEntity(_, _, _)
VisitorsLoopAnyEntity(c, entities, ord) ==
    IF entities = <<>> THEN c
    ELSE LET entity == Head(entities)
         IN  IF IsSome(entity.generates)
             THEN VisitorsLoopAnyEntity(
                      GenerateLoop(c, entity, Keys(entity.generates[1], ord)),
                      Tail(entities), ord)
             ELSE VisitorsLoopAnyEntity(c, Tail(entities), ord)

ProcessVisitorsAnyEntity(c, ord) == VisitorsLoopAnyEntity(c, c.s.entities, ord)

\* TickEngine::process_visitors
process_visitors(c, ord) == VisitorsLoop(c, c.s.entities, ord)

RECURSIVE ThresholdLoopStrict(_, _, _, _, _)
ThresholdLoopStrict(c, resource, prev, current, i) ==
    IF i > Len(RESOURCE_THRESHOLDS) THEN c
    ELSE LET threshold == RESOURCE_THRESHOLDS[i]
         IN  ThresholdLoopStrict(
                 IF prev < threshold /\ current > threshold
                 THEN push(c, [kind |-> "ThresholdCrossed", resource |-> resource,
                               threshold |-> threshold, current |-> current])
                 ELSE c,
                 resource, prev, current, i + 1)

RECURSIVE ThresholdLoop(_, _, _, _, _)
\* the inner loop of check_thresholds over RESOURCE_THRESHOLDS from position i
ThresholdLoop(c, resource, prev, current, i) ==
    IF i > Len(RESOURCE_THRESHOLDS) THEN c
    ELSE LET threshold == RESOURCE_THRESHOLDS[i]
         IN  ThresholdLoop(
                 IF prev < threshold /\ current >= threshold
                 THEN push(c, [kind |-> "ThresholdCrossed", resource |-> resource,
                               threshold |-> threshold, current |-> current])
                 ELSE c,
                 resource, prev, current, i + 1)

RECURSIVE ResourcesLoop(_, _, _)
ResourcesLoop(c, prev_resources, keys) ==
    IF keys = <<>> THEN c
    ELSE LET resource == Head(keys)
         IN  ResourcesLoop(
                 ThresholdLoop(c, resource, get(prev_resources, resource),
                               c.s.resources[resource], 1),
                 prev_resources, Tail(keys))

\* TickEngine::check_thresholds
check_thresholds(c, prev_resources, ord) ==
    ResourcesLoop(c, prev_resources, Keys(c.s.resources, ord))

ProcessBoredomAboveThreshold(c, ord) ==
    LET idle == c.s.queues.actions = <<>> /\ c.s.queues.events = <<>>
        boredom == IF idle THEN c.s.meta.boredom + 1 ELSE Max(c.s.meta.boredom - 1, 0)
    IN  IF boredom > BOREDOM_THRESHOLD
        THEN push([c EXCEPT !.s.meta.boredom = 0],
                  [kind |-> "BoredomHigh", level |-> boredom])
        ELSE [c EXCEPT !.s.meta.boredom = boredom]

\* TickEngine::process_boredom
process_boredom(c, ord) ==
    LET idle == c.s.queues.actions = <<>> /\ c.s.queues.events = <<>>
        boredom == IF idle THEN c.s.meta.boredom + 1 ELSE Max(c.s.meta.boredom - 1, 0)
    IN  IF boredom >= BOREDOM_THRESHOLD
        THEN push([c EXCEPT !.s.meta.boredom = 0],
                  [kind |-> "BoredomHigh", level |-> boredom])
        ELSE [c EXCEPT !.s.meta.boredom = boredom]


TickContextCarriedRng(s, e) ==
    [s |-> [s EXCEPT !.tick = s.tick + 1],
     e |-> e,
     ev |-> <<>>,
     rng |-> [seed |-> e.seed, calls |-> e.drawn],
     steps |-> <<>>,
     draws |-> <<>>,
     after |-> <<>>]

\* the context tick() starts its phases from
TickContext(s, e) ==
    [s |-> [s EXCEPT !.tick = s.tick + 1],
     e |-> e,
     ev |-> <<>>,
     rng |-> from_tick(e.seed, s.tick + 1),
     steps |-> <<>>,
     draws |-> <<>>,
     after |-> <<>>]

\* what one phase left behind: the snapshot, the engine and the number of
\* events pushed so far
Mark(c) == [s |-> c.s, e |-> c.e, nev |-> Len(c.ev)]

\* the context with the record of the phase that just ran appended
Marked(c) == [c EXCEPT !.after = Append(@, Mark(c))]

RunPhasesSystemsFirst(c0, prev_resources, ord) ==
    Marked(process_boredom(
    Marked(check_thresholds(
    Marked(process_visitors(
    Marked(process_receiver(
    Marked(process_queen(
    Marked(process_blight(
    Marked(process_undertakers(
    Marked(process_entities(
    Marked(process_actions(
    Marked(process_systems(c0, ord)), ord)), ord)), ord)), ord)), ord)), ord)),
        ord)), prev_resources, ord)), ord))

\* the ten phases of tick(), in the order it calls them
RunPhases(c0, prev_resources, ord) ==
    Marked(process_boredom(
    Marked(check_thresholds(
    Marked(process_visitors(
    Marked(process_receiver(
    Marked(process_queen(
    Marked(process_blight(
    Marked(process_undertakers(
    Marked(process_entities(
    Marked(process_systems(
    Marked(process_actions(c0, ord)), ord)), ord)), ord)), ord)), ord)), ord)),
        ord)), prev_resources, ord)), ord))

\* what tick() leaves: the snapshot, the engine and the returned events, with
\* the record of the run (pre: before the call, after[i]: after phase i)
TickResult(s, e, c) ==
    [s |-> c.s,
     e |-> [c.e EXCEPT !.drawn = @ + Len(c.draws)],
     ev |-> c.ev,
     probe |-> [pre |-> [s |-> s, e |-> e],
                rng_seed |-> c.rng.seed,
                after |-> c.after,
                steps |-> c.steps,
                draws |-> c.draws]]

\* TickEngine::tick
tick(s, e, ord) ==
    TickResult(s, e, RunPhases(TickContext(s, e), s.resources, ord))

\* the least age among the ants, 0 when there is no ant
YoungestAntAge(entities) ==
    LET ages == {entities[i].age : i \in {j \in 1..Len(entities) :
                                            entities[j].entity_type = "ant"}}
    IN  IF ages = {} THEN 0 ELSE CHOOSE a \in ages : \A b \in ages : a <= b

InitFromAnyEntity(e, s) ==
    IF s.entities # <<>>
    THEN [e EXCEPT !.last_spawn_tick =
             LET ages == {s.entities[i].age : i \in DOMAIN s.entities}
             IN  Max(s.tick - (CHOOSE a \in ages : \A b \in ages : a <= b), 0)]
    ELSE e

InitFromStateAgesForward(e, s) ==
    IF s.entities # <<>>
    THEN [e EXCEPT !.last_spawn_tick = s.tick + YoungestAntAge(s.entities)]
    ELSE e

\* TickEngine::init_from_state
init_from_state(e, s) ==
    IF s.entities # <<>>
    THEN [e EXCEPT !.last_spawn_tick = Max(s.tick - YoungestAntAge(s.entities), 0)]
    ELSE e

-----------------------------------------------------------------------------
(* The starting snapshots and seeds the engines are run on *)

\* every system id and resource name of the snapshots, in one iteration order
KeyOrder ==
    <<"compost_heap", "dig_site", "queen_chamber", "receiver", "crystals", "dirt",
      "fungus", "influence", "insight", "nutrients", "ore", "strange_matter">>

\* the iteration orders a HashMap may show
HashOrders == {KeyOrder, Reverse(KeyOrder)}

U64_MAX == [i \in 1..LIMBS |-> BYTE - 1]

Seeds == {ToU64(42), ToU64(12345), ToU64(99999), U64_MAX}

Sid(n) == <<"s", n>>

CompostTile(contamination, blighted, remaining) ==
    [new_compost EXCEPT !.contamination = Some(contamination),
                        !.blighted = Some(blighted),
                        !.blight_ticks_remaining = Some(remaining)]

TwoTiles(compost) == [origin |-> new_empty, compost |-> compost]

\* a generator and a converter on one resource, nothing else
ConserveSnapshot(d0, g, c, n) ==
    [GameState_default EXCEPT
        !.resources = [dirt |-> d0],
        !.systems = [dig_site |-> new_generator([dirt |-> g]),
                     compost_heap |-> new_converter([dirt |-> c], [nutrients |-> n])]]

ConserveSnapshots ==
    {ConserveSnapshot(d0, r[1], r[2], r[3]) :
        d0 \in {0, 200, 500000}, r \in {<<200, 50, 100>>, <<50, 200, 100>>}}

\* hungry entities around the eating threshold, little food
EatSnapshot(fungus) ==
    [GameState_default EXCEPT
        !.tick = 40,
        !.resources = [fungus |-> fungus, influence |-> 1500],
        !.entities =
            <<[new_worker(Sid(1), "origin") EXCEPT !.hunger = 501000],
              [new_worker(Sid(2), "origin") EXCEPT !.hunger = 500500],
              [new_worker(Sid(3), "origin") EXCEPT !.hunger = 400000],
              [new_hungry(Sid(4)) EXCEPT !.hunger = 300000],
              [new_hungry(Sid(5)) EXCEPT !.hunger = 300000, !.transforms = None],
              [new_worker(Sid(6), "origin") EXCEPT !.hunger = 100000,
                                                   !.food = Some("influence")],
              [new_observer(Sid(7)) EXCEPT !.hunger = 200000],
              [new_wanderer(Sid(8)) EXCEPT !.hunger = 200000]>>]

\* entities at the edge of starvation and of old age
StarveSnapshot ==
    [GameState_default EXCEPT
        !.tick = 7300,
        !.resources = [fungus |-> 10000],
        !.entities =
            <<[new_worker(Sid(1), "origin") EXCEPT !.hunger = 500],
              [new_worker(Sid(2), "origin") EXCEPT !.hunger = 1000],
              [new_worker(Sid(3), "origin") EXCEPT !.hunger = 500],
              [new_worker(Sid(4), "origin") EXCEPT !.age = 7199],
              [new_undertaker(Sid(5), "origin") EXCEPT !.age = 7199, !.hunger = 1500,
                                                       !.processing_corpse = Some(TRUE),
                                                       !.processing_ticks = Some(7)],
              [new_wanderer(Sid(6)) EXCEPT !.age = 1799],
              [new_hungry(Sid(7)) EXCEPT !.hunger = 5000],
              [new_worker(Sid(8), "origin") EXCEPT !.hunger = 2500, !.food = None],
              [new_observer(Sid(9)) EXCEPT !.age = 3598]>>]

OldCorpse(n, death_tick) ==
    [entity_id |-> <<"c", n>>, entity_type |-> "ant", death_tick |-> death_tick,
     cause |-> "old_age", tile |-> "origin"]

\* a contaminated compost tile with ants and a visitor standing on it
BlightSnapshot(contamination) ==
    [GameState_default EXCEPT
        !.tick = 5000,
        !.resources = [dirt |-> 500000, fungus |-> 300000, nutrients |-> 99950],
        !.systems =
            [dig_site |-> new_generator([dirt |-> 200]),
             compost_heap |->
                 [new_converter([dirt |-> 50], [nutrients |-> 100]) EXCEPT
                     !.corpse_boosts = <<[expires_at_tick |-> 5002, bonus |-> 1000],
                                         [expires_at_tick |-> 5600, bonus |-> 1000]>>]],
        !.map = [tiles |-> TwoTiles(CompostTile(contamination, FALSE, 0))],
        !.entities =
            <<[new_worker(Sid(1), "compost") EXCEPT !.age = 100, !.hunger = 900000],
              [new_undertaker(Sid(2), "compost") EXCEPT
                  !.age = 100, !.processing_corpse = Some(TRUE),
                  !.processing_ticks = Some(50)],
              [new_observer(Sid(3)) EXCEPT !.tile = "compost", !.age = 10],
              [new_worker(Sid(4), "origin") EXCEPT !.age = 200],
              [new_wanderer(Sid(5)) EXCEPT !.age = 20]>>,
        !.graveyard = [corpses |-> <<OldCorpse(1, 4990)>>, total_processed |-> 3]]

\* a blighted compost tile about to clear, its system disabled
BlightedSnapshot(remaining) ==
    [GameState_default EXCEPT
        !.tick = 6000,
        !.resources = [dirt |-> 500000, fungus |-> 300000],
        !.systems =
            [compost_heap |->
                 [system_type |-> "converter", generates |-> None, consumes |-> None,
                  corpse_boosts |-> <<>>,
                  original_generates |-> Some([nutrients |-> 100]),
                  original_consumes |-> Some([dirt |-> 50])]],
        !.map = [tiles |-> TwoTiles(CompostTile(3000, TRUE, remaining))],
        !.entities =
            <<[new_undertaker(Sid(1), "origin") EXCEPT
                  !.age = 100, !.processing_corpse = Some(TRUE),
                  !.processing_ticks = Some(119)],
              [new_undertaker(Sid(2), "origin") EXCEPT !.age = 100]>>,
        !.graveyard = [corpses |-> <<OldCorpse(1, 5990), OldCorpse(2, 5995)>>,
                       total_processed |-> 0]]

\* undertakers at work: one about to deliver, one idle, corpses waiting
UndertakerSnapshot(contamination) ==
    [GameState_default EXCEPT
        !.tick = 900,
        !.resources = [dirt |-> 20000, fungus |-> 300000],
        !.systems = [compost_heap |-> new_converter([dirt |-> 50], [nutrients |-> 100])],
        !.map = [tiles |-> TwoTiles(CompostTile(contamination, FALSE, 0))],
        !.entities =
            <<[new_undertaker(Sid(1), "origin") EXCEPT
                  !.age = 500, !.processing_corpse = Some(TRUE),
                  !.processing_ticks = Some(119)],
              [new_undertaker(Sid(2), "origin") EXCEPT !.age = 500],
              [new_worker(Sid(3), "origin") EXCEPT !.age = 500, !.hunger = 1500,
                                                   !.food = None]>>,
        !.graveyard = [corpses |-> <<OldCorpse(1, 890), OldCorpse(2, 895)>>,
                       total_processed |-> 17]]

Effect(resources) == Some([resources |-> Some(resources)])

\* resources around the thresholds, moved by a generator and queued actions
ThresholdSnapshot(pending) ==
    [GameState_default EXCEPT
        !.tick = 10,
        !.resources = [dirt |-> 99000, fungus |-> 2490000],
        !.systems = [dig_site |-> new_generator([dirt |-> 2000, fungus |-> 10000])],
        !.queues =
            [actions |->
                <<[id |-> "a1", action_type |-> "gather", ticks_remaining |-> 1,
                   effects |-> Effect([nutrients |-> 300000])],
                  [id |-> "a2", action_type |-> "spend", ticks_remaining |-> 2,
                   effects |-> Effect([dirt |-> -5000])],
                  [id |-> "a3", action_type |-> "wait", ticks_remaining |-> 0,
                   effects |-> None],
                  [id |-> "a4", action_type |-> "build", ticks_remaining |-> 3,
                   effects |-> Some([resources |-> None])]>>,
             events |-> pending],
        !.entities = <<[new_worker(Sid(1), "origin") EXCEPT !.hunger = 400000],
                       new_observer(Sid(2))>>,
        !.meta = [GameState_default.meta EXCEPT !.boredom = 59]]

\* a queen chamber and a receiver, a spawn due for an attached engine
QueenReceiverSnapshot(contamination, strange_matter) ==
    [GameState_default EXCEPT
        !.tick = 5000,
        !.resources = [nutrients |-> 200000, fungus |-> 200000, influence |-> 500000,
                       strange_matter |-> strange_matter],
        !.systems = [queen_chamber |-> bare_system("spawner"),
                     receiver |-> bare_system("antenna")],
        !.map = [tiles |-> TwoTiles(CompostTile(contamination, FALSE, 0))],
        !.entities = <<[new_worker(Sid(1), "origin") EXCEPT !.age = 1799]>>,
        !.meta = [GameState_default.meta EXCEPT
                     !.goals = [receiver_maintenance |->
                                   [last_maintained |-> 1402,
                                    maintenance_interval_ticks |-> 3600]]]]

\* an empty colony with a queen chamber, and a receiver out of fuel
EmergencySnapshot ==
    [GameState_default EXCEPT
        !.tick = 8000,
        !.resources = [nutrients |-> 200000, fungus |-> 260000, influence |-> 30000],
        !.systems = [queen_chamber |-> bare_system("spawner"),
                     receiver |-> bare_system("antenna")],
        !.meta = [GameState_default.meta EXCEPT
                     !.boredom = 58,
                     !.goals = [receiver_maintenance |-> EmptyMap]]]

\* a queen chamber whose last ant, spawned ten ticks ago, starves in the
\* next tick
LastAntSnapshot(nutrients) ==
    [GameState_default EXCEPT
        !.tick = 7300,
        !.resources = [nutrients |-> nutrients, fungus |-> 150000],
        !.systems = [queen_chamber |-> bare_system("spawner")],
        !.entities = <<[new_worker(Sid(1), "origin") EXCEPT
                           !.age = 10, !.hunger = 500, !.food = None]>>]

\* two converters that draw on the same dirt
SharedDirtSnapshot(dirt) ==
    [GameState_default EXCEPT
        !.tick = 300,
        !.resources = [dirt |-> dirt],
        !.systems = [compost_heap |-> new_converter([dirt |-> 50], [nutrients |-> 100]),
                     dig_site |-> new_converter([dirt |-> 50], [ore |-> 100])]]

\* a snapshot saved at tick 1800 of a colony with a queen chamber and food
\* for a spawn
ResumeSnapshot(entities) ==
    [GameState_default EXCEPT
        !.tick = 1800,
        !.resources = [nutrients |-> 200000, fungus |-> 200000],
        !.systems = [queen_chamber |-> bare_system("spawner")],
        !.entities = entities]

\* the colonies of ResumeSnapshot: a founder as old as the colony; an ant two
\* ticks younger beside a founder and a visitor younger than both; a visitor
\* alone
ResumeColonies ==
    {<<[new_worker(Sid(1), "origin") EXCEPT !.age = 1800]>>,
     <<[new_undertaker(Sid(1), "origin") EXCEPT !.age = 1800],
       [new_wanderer(Sid(2)) EXCEPT !.age = 100],
       [new_worker(Sid(3), "origin") EXCEPT !.age = 1798]>>,
     <<[new_wanderer(Sid(1)) EXCEPT !.age = 100]>>}

\* a silent receiver with a maintenance goal last kept at last_maintained
MaintenanceSnapshot(last_maintained, strange_matter) ==
    [GameState_default EXCEPT
        !.tick = 9000,
        !.resources = [influence |-> 500000, strange_matter |-> strange_matter],
        !.systems = [receiver |-> bare_system("antenna")],
        !.meta = [GameState_default.meta EXCEPT
                     !.receiver_silent = TRUE,
                     !.receiver_failed_tick = Some(8990),
                     !.goals = [receiver_maintenance |->
                                   [last_maintained |-> last_maintained,
                                    maintenance_interval_ticks |-> 3600]]]]

\* guests at the receiver: an observer, a visitor that generates two
\* resources, a wanderer, which generates nothing, and a worker whose record
\* carries a generates map
GuestsSnapshot ==
    [GameState_default EXCEPT
        !.tick = 700,
        !.resources = [fungus |-> 200000, crystals |-> 50000],
        !.entities =
            <<new_observer(Sid(1)),
              [new_observer(Sid(2)) EXCEPT
                  !.generates = Some(Entry("insight", 10) @@ Entry("crystals", 20))],
              new_wanderer(Sid(3)),
              [new_worker(Sid(4), "origin") EXCEPT !.generates = Some(Entry("ore", 30))]>>]

\* a well-fed colony of old entities: an ant two ticks short of its max_age,
\* an ant beyond it, a wanderer three ticks short of its own
AgedSnapshot ==
    [GameState_default EXCEPT
        !.tick = 50,
        !.resources = [fungus |-> 500000],
        !.entities = <<[new_worker(Sid(1), "origin") EXCEPT !.age = 7198],
                       [new_undertaker(Sid(2), "origin") EXCEPT !.age = 7300],
                       [new_wanderer(Sid(3)) EXCEPT !.age = 1797]>>]

\* a listening receiver and the given influence
ListeningSnapshot(influence) ==
    [GameState_default EXCEPT
        !.tick = 400,
        !.resources = [influence |-> influence],
        !.systems = [receiver |-> bare_system("antenna")]]

\* a receiver that has gone silent, with influence to spend and no
\* maintenance goal
SilentReceiverSnapshot ==
    [GameState_default EXCEPT
        !.tick = 9000,
        !.resources = [influence |-> 500000, strange_matter |-> 10000],
        !.systems = [receiver |-> bare_system("antenna")],
        !.meta = [GameState_default.meta EXCEPT
                     !.receiver_silent = TRUE,
                     !.receiver_failed_tick = Some(8990)]]

\* SAMPLE_STATE of tests/compatibility.rs
SampleSnapshot ==
    [GameState_default EXCEPT
        !.tick = 104100,
        !.resources = [dirt |-> 15898550, nutrients |-> 8162700, fungus |-> 1017816,
                       crystals |-> 220230, ore |-> 553260, influence |-> 19935,
                       insight |-> 36000],
        !.systems =
            [compost_heap |->
                 [new_converter([dirt |-> 50], [nutrients |-> 100]) EXCEPT
                     !.system_type = "generator"],
             dig_site |-> new_generator([dirt |-> 200])],
        !.entities = <<new_worker(Sid(1), "origin"), new_undertaker(Sid(2), "origin")>>,
        !.map = [tiles |-> TwoTiles(CompostTile(100, FALSE, 0))],
        !.meta = [GameState_default.meta EXCEPT
                     !.boredom = 28, !.receiver_silent = TRUE,
                     !.receiver_failed_tick = Some(104100)],
        !.graveyard = [corpses |-> <<>>, total_processed |-> 17],
        !.last_save_timestamp = Some(1766544426)]

Snapshots ==
    ConserveSnapshots
    \cup {EatSnapshot(f) : f \in {15000, 100000}}
    \cup {StarveSnapshot}
    \cup {BlightSnapshot(k) : k \in {0, 5000, 10000}}
    \cup {BlightedSnapshot(r) : r \in {1, 2}}
    \cup {UndertakerSnapshot(k) : k \in {0, 9950}}
    \cup {ThresholdSnapshot(q) : q \in {<<>>, <<"card">>}}
    \cup {QueenReceiverSnapshot(k, m) : k \in {0, 5000}, m \in {0, 10000}}
    \cup {LastAntSnapshot(n) : n \in {149999, 150000}}
    \cup {MaintenanceSnapshot(l, m) : l \in {5390, 8000}, m \in {5000, 10000, 20000}}
    \cup {ResumeSnapshot(entities) : entities \in ResumeColonies}
    \cup {SharedDirtSnapshot(dirt) : dirt \in {50, 150}}
    \cup {ListeningSnapshot(influence) : influence \in {0, 5, 6, 20004, 20005}}
    \cup {EmergencySnapshot, SilentReceiverSnapshot, SampleSnapshot, GuestsSnapshot,
          AgedSnapshot}

-----------------------------------------------------------------------------
(* The state machine: two engines, each on its own copy of one snapshot,  *)
(* each ticked once per step under its own HashMap iteration order.        *)

NoProbe(s, e) ==
    [pre |-> [s |-> s, e |-> e], rng_seed |-> e.seed, after |-> <<>>,
     steps |-> <<>>, draws |-> <<>>]

\* whether the events hold one of the given kind
HasKind(evs, kind) == \E i \in DOMAIN evs : evs[i].kind = kind

\* the entity with the given id, if any
EntityOf(entities, id) ==
    IF FindFrom(entities, id, 1) = 0 THEN None
    ELSE Some(entities[FindFrom(entities, id, 1)])

\* whether the entity with the given id is processing a corpse
Processing(entities, id) ==
    /\ IsSome(EntityOf(entities, id))
    /\ UnwrapOr(EntityOf(entities, id)[1].processing_corpse, FALSE)

\* the rate maps of the compost_heap system, if there is one
CompostMaps(s) ==
    IF has_system(s, "compost_heap")
    THEN Some([consumes |-> s.systems["compost_heap"].consumes,
               generates |-> s.systems["compost_heap"].generates])
    ELSE None

\* nothing has happened yet.  struck, spawns, summons: the ticks of the last
\* two BlightStruck events, spawns of either kind and InfluenceSpent events
\* (0: none); answered: whether each of those two summons brought a visitor;
\* cleared: the tick of the last BlightCleared; maps: the rate maps of
\* compost_heap when the blight phase of the last strike began; boosted: the
\* ticks, one per boost, in which the undertakers phase added a corpse boost
\* to compost_heap less than CORPSE_BOOST_DURATION ticks ago; arrived: the
\* tick of arrival of every visitor that a summon brought and that was in the
\* colony when the entities phase of the latest tick began; buried: the
\* EntityDied and BlightKill events so far, one per corpse added to the
\* graveyard; orphaned: the undertakers that were removed while processing a
\* corpse; unmarked: the deliveries that did not raise total_processed
NoJournal ==
    [struck |-> <<0, 0>>, cleared |-> 0, maps |-> None, spawns |-> <<0, 0>>,
     summons |-> <<0, 0>>, answered |-> <<FALSE, FALSE>>, boosted |-> <<>>,
     arrived |-> EmptyMap, buried |-> 0, orphaned |-> 0, unmarked |-> 0,
     started |-> EmptyMap]

\* the journal entry of one undertaker after the tick with result r:
\* at: the tick it took its corpse, skipped: the undertaker phases skipped
\* since, done: the tick it delivered (0 while at work)
StartedEntry(j, r, id) ==
    IF ~Processing(r.probe.after[3].s.entities, id)
          /\ Processing(r.probe.after[4].s.entities, id)
    THEN Some([at |-> r.s.tick, skipped |-> 0, done |-> 0])
    ELSE IF id \notin DOMAIN j.started THEN None
    ELSE IF Processing(r.probe.after[3].s.entities, id)
               /\ ~Processing(r.probe.after[4].s.entities, id)
         THEN Some([j.started[id] EXCEPT !.done = r.s.tick])
    ELSE IF "compost" \in DOMAIN r.probe.after[3].s.map.tiles
               /\ is_blighted(r.probe.after[3].s.map.tiles["compost"])
               /\ j.started[id].done = 0
         THEN Some([j.started[id] EXCEPT !.skipped = @ + 1])
    ELSE Some(j.started[id])

\* the positions of the undertakers that are processing a corpse
Carrying(entities) ==
    {i \in DOMAIN entities :
        /\ entities[i].role = Some("undertaker")
        /\ UnwrapOr(entities[i].processing_corpse, FALSE)}

\* the undertakers that were processing a corpse and are gone after a phase
Orphaned(before, after) ==
    Cardinality({i \in Carrying(before) :
                    \A j \in DOMAIN after : after[j].id # before[i].id})

\* the undertakers that were processing a corpse and are not after a phase
HandedOver(before, after) ==
    Cardinality({i \in Carrying(before) :
                    \E j \in DOMAIN after :
                       after[j].id = before[i].id /\ j \notin Carrying(after)})

\* the ids of the visitors that arrived in the tick with result r
Arrivals(r) ==
    {r.ev[k].visitor_id : k \in {x \in DOMAIN r.ev : r.ev[x].kind = "VisitorArrived"}}

\* the journal after the tick with result r
Journal(j, r) ==
    [struck |-> IF HasKind(r.ev, "BlightStruck")
                THEN <<j.struck[2], r.s.tick>> ELSE j.struck,
     cleared |-> IF HasKind(r.ev, "BlightCleared") THEN r.s.tick ELSE j.cleared,
     maps |-> IF HasKind(r.ev, "BlightStruck")
              THEN CompostMaps(r.probe.after[4].s) ELSE j.maps,
     spawns |-> IF HasKind(r.ev, "AntsSpawned") \/ HasKind(r.ev, "EmergencySpawn")
                THEN <<j.spawns[2], r.s.tick>> ELSE j.spawns,
     summons |-> IF HasKind(r.ev, "InfluenceSpent")
                 THEN <<j.summons[2], r.s.tick>> ELSE j.summons,
     answered |-> IF HasKind(r.ev, "InfluenceSpent")
                  THEN <<j.answered[2], HasKind(r.ev, "VisitorArrived")>>
                  ELSE j.answered,
     boosted |->
         SelectSeq(j.boosted, LAMBDA at : at + CORPSE_BOOST_DURATION > r.s.tick)
            \o [i \in 1..(IF has_system(r.s, "compost_heap")
                          THEN Len(r.probe.after[4].s.systems["compost_heap"].corpse_boosts)
                                  - Len(r.probe.after[3].s.systems["compost_heap"].corpse_boosts)
                          ELSE 0) |-> r.s.tick],
     arrived |->
         [id \in Arrivals(r)
                   \cup {x \in DOMAIN j.arrived :
                            \E i \in DOMAIN r.probe.after[2].s.entities :
                               r.probe.after[2].s.entities[i].id = x}
             |-> IF id \in Arrivals(r) THEN r.s.tick ELSE j.arrived[id]],
     buried |-> j.buried
                   + Cardinality({k \in DOMAIN r.ev :
                                     r.ev[k].kind \in {"EntityDied", "BlightKill"}}),
     orphaned |-> j.orphaned
                     + Orphaned(r.probe.after[2].s.entities, r.probe.after[3].s.entities)
                     + Orphaned(r.probe.after[4].s.entities, r.probe.after[5].s.entities),
     unmarked |-> j.unmarked
                     + HandedOver(r.probe.after[3].s.entities, r.probe.after[4].s.entities)
                     - (r.probe.after[4].s.graveyard.total_processed
                           - r.probe.after[3].s.graveyard.total_processed),
     started |->
         [id \in {x \in Range(UndertakerIds(r.s.entities)) :
                     IsSome(StartedEntry(j, r, x))} |-> StartedEntry(j, r, id)[1]]]

\* the two engines e1 and e2 before their first tick, on two copies of one
\* snapshot; resumed: the engine init_from_state was called on to give e1, if
\* it was called
Engines(snapshot, e1, e2, resumed) ==
    /\ state = snapshot
    /\ engine = e1
    /\ events = <<>>
    /\ probe = NoProbe(snapshot, e1)
    /\ twin = [state |-> snapshot, engine |-> e2, events |-> <<>>,
               probe |-> NoProbe(snapshot, e2), paired |-> e2 = e1]
    /\ start = [state |-> snapshot, engine |-> e1, resumed |-> resumed]
    /\ calls = 0
    /\ crossed = {}
    /\ journal = NoJournal

\* twin.paired: both engines were built alike and neither was rebuilt since;
\* crossed: the (resource, threshold) pairs reported before the latest tick
Init ==
    /\ \E seed \in Seeds, snapshot \in Snapshots, attach \in BOOLEAN, alike \in BOOLEAN :
          LET fresh == TickEngine_new(seed)
              e1 == IF attach THEN init_from_state(fresh, snapshot) ELSE fresh
              e2 == IF alike THEN e1 ELSE fresh
          IN  Engines(snapshot, e1, e2, IF attach THEN Some(fresh) ELSE None)
    /\ ledger = <<>>
    /\ bench = <<>>

\* both engines move on to the results r1 and r2 of their tick() calls
Advance(r1, r2) ==
    /\ state' = r1.s
    /\ engine' = r1.e
    /\ events' = r1.ev
    /\ probe' = r1.probe
    /\ twin' = [twin EXCEPT !.state = r2.s, !.engine = r2.e,
                            !.events = r2.ev, !.probe = r2.probe]
    /\ journal' = Journal(journal, r1)

\* one tick() call on each engine
Tick ==
    /\ calls < MaxCalls
    /\ \E ord1 \in HashOrders, ord2 \in HashOrders :
          Advance(tick(state, engine, ord1), tick(twin.state, twin.engine, ord2))
    /\ calls' = calls + 1
    /\ crossed' = crossed \cup
                      {<<events[i].resource, events[i].threshold>> :
                          i \in {j \in DOMAIN events : events[j].kind = "ThresholdCrossed"}}
    /\ UNCHANGED <<start, ledger, bench>>

\* the host drops the second engine and builds a new one with the same seed
\* on a copy of the first engine's current snapshot
Rebuild ==
    /\ calls > 0
    /\ twin.paired
    /\ twin' = [state |-> state, engine |-> TickEngine_new(engine.seed),
                events |-> <<>>,
                probe |-> NoProbe(state, TickEngine_new(engine.seed)),
                paired |-> FALSE]
    /\ UNCHANGED <<state, engine, events, probe, start, calls, crossed, ledger,
                   journal, bench>>

Next == Tick \/ Rebuild

Spec == Init /\ [][Next]_vars

-----------------------------------------------------------------------------
(* Long runs: one engine driven tick after tick from one snapshot *)

\* a colony with every system and corpses waiting, on the given tiles
ColonySnapshot(tiles, entities) ==
    [GameState_default EXCEPT
        !.tick = 1000,
        !.resources = [dirt |-> 500000, nutrients |-> 1000000, fungus |-> 1000000,
                       influence |-> 200000],
        !.systems = [compost_heap |-> new_converter([dirt |-> 50], [nutrients |-> 100]),
                     dig_site |-> new_generator([dirt |-> 200]),
                     queen_chamber |-> bare_system("spawner"),
                     receiver |-> bare_system("antenna")],
        !.map = [tiles |-> tiles],
        !.entities = entities,
        !.graveyard = [corpses |-> <<OldCorpse(1, 990), OldCorpse(2, 995),
                                     OldCorpse(3, 999)>>,
                       total_processed |-> 0]]

\* a bored colony at work: one action of 50 ticks in the queue
BusyColonySnapshot ==
    [ColonySnapshot(TwoTiles(CompostTile(0, FALSE, 0)),
                    <<[new_worker(Sid(2), "origin") EXCEPT !.age = 100]>>) EXCEPT
        !.queues = [actions |-> <<[id |-> "a1", action_type |-> "dig",
                                   ticks_remaining |-> 50,
                                   effects |-> Effect([dirt |-> 10000])]>>,
                    events |-> <<>>],
        !.meta = [GameState_default.meta EXCEPT !.boredom = 100]]

\* an empty colony; an idle undertaker and a worker on a clean compost tile;
\* the same on a compost tile at full contamination; the same on the map of
\* GameState::default(), which has no compost tile; the colony at work
LongSnapshots ==
    {BusyColonySnapshot,
     ColonySnapshot(TwoTiles(CompostTile(0, FALSE, 0)), <<>>),
     ColonySnapshot(TwoTiles(CompostTile(0, FALSE, 0)),
                    <<[new_undertaker(Sid(1), "origin") EXCEPT !.age = 100],
                      [new_worker(Sid(2), "origin") EXCEPT !.age = 100]>>),
     ColonySnapshot(TwoTiles(CompostTile(10000, FALSE, 0)),
                    <<[new_undertaker(Sid(1), "origin") EXCEPT !.age = 100],
                      [new_worker(Sid(2), "compost") EXCEPT !.age = 100]>>),
     ColonySnapshot(GameState_default.map.tiles,
                    <<[new_undertaker(Sid(1), "origin") EXCEPT !.age = 100],
                      [new_worker(Sid(2), "origin") EXCEPT !.age = 100]>>)}

\* one fresh engine on a snapshot; the second engine stays as built
InitLong ==
    /\ \E snapshot \in LongSnapshots, attach \in BOOLEAN :
          LET fresh == TickEngine_new(ToU64(42))
              e1 == IF attach THEN init_from_state(fresh, snapshot) ELSE fresh
          IN  Engines(snapshot, e1, e1, IF attach THEN Some(fresh) ELSE None)
    /\ ledger = <<>>
    /\ bench = <<>>

\* the engine moves on to the result r of its tick() call
AdvanceLong(r) ==
    /\ state' = r.s
    /\ engine' = r.e
    /\ events' = r.ev
    /\ probe' = r.probe
    /\ journal' = Journal(journal, r)

\* one tick() call
TickLong ==
    /\ calls < MaxLongCalls
    /\ \E ord \in HashOrders : AdvanceLong(tick(state, engine, ord))
    /\ calls' = calls + 1
    /\ UNCHANGED <<twin, start, crossed, ledger, bench>>

NextLong == TickLong

SpecLong == InitLong /\ [][NextLong]_vars

-----------------------------------------------------------------------------
(* Resource amounts as IEEE-754 doubles.                                   *)
(*                                                                         *)
(* Resources holds f64 amounts and Resources::add stores current + delta,  *)
(* rounded to the nearest double (ties to even).  Here an amount a with    *)
(* 0 <= a < 2^(F64_WIDTH - F64_SCALE) that is a multiple of 2^-F64_SCALE   *)
(* is the sequence of the F64_WIDTH binary digits of a * 2^F64_SCALE,      *)
(* least significant first.  Every double from 2^-8 up to 2^12 has that    *)
(* form, and so has every sum and difference formed below.                 *)

F64_SCALE == 60
F64_WIDTH == 72

\* f64::MANTISSA_DIGITS
F64_MANTISSA == 53

RECURSIVE DigitsFrom(_, _, _)
DigitsFrom(bytes, i, digits) ==
    IF i > F64_WIDTH THEN digits
    ELSE DigitsFrom(bytes, i + 1,
             Append(digits, (bytes[((i - 1) \div 8) + 1] \div 2^((i - 1) % 8)) % 2))

\* the digits of a * 2^F64_SCALE out of its little-endian bytes
F64(bytes) == DigitsFrom(bytes, 1, <<>>)

\* the literals of test_resource_generation_determinism as doubles:
\* 0.02 is 0x51EB851EB851EC * 2^-60, 0.005 is 0x147AE147AE147B * 2^-60,
\* 0.01 is 0x28F5C28F5C28F6 * 2^-60
F64_DIG_SITE_DIRT == F64(<<236, 81, 184, 30, 133, 235, 81, 0, 0>>)
F64_COMPOST_DIRT == F64(<<123, 20, 174, 71, 225, 122, 20, 0, 0>>)
F64_COMPOST_NUTRIENTS == F64(<<246, 40, 92, 143, 194, 245, 40, 0, 0>>)

F64_ZERO == F64(<<0, 0, 0, 0, 0, 0, 0, 0, 0>>)

\* starting amounts of dirt: 0.0, 0.01, 0.1, 1.0, 2.5 and the test's 50.0
F64Starts ==
    {F64_ZERO,
     F64(<<246, 40, 92, 143, 194, 245, 40, 0, 0>>),
     F64(<<160, 153, 153, 153, 153, 153, 153, 1, 0>>),
     F64(<<0, 0, 0, 0, 0, 0, 0, 16, 0>>),
     F64(<<0, 0, 0, 0, 0, 0, 0, 40, 0>>),
     F64(<<0, 0, 0, 0, 0, 0, 0, 32, 3>>)}

\* the digits of a + b from place i up, after the lower digits, given the
\* carry into place i
RECURSIVE SumFrom(_, _, _, _, _)
SumFrom(a, b, i, carry, digits) ==
    IF i > F64_WIDTH THEN digits
    ELSE SumFrom(a, b, i + 1, (a[i] + b[i] + carry) \div 2,
                 Append(digits, (a[i] + b[i] + carry) % 2))

\* a + b exactly
ExactSum(a, b) == SumFrom(a, b, 1, 0, <<>>)

\* the digits of a - b from place i up, given the borrow out of place i
RECURSIVE DifferenceFrom(_, _, _, _, _)
DifferenceFrom(a, b, i, borrow, digits) ==
    IF i > F64_WIDTH THEN digits
    ELSE DifferenceFrom(a, b, i + 1,
                        IF a[i] - b[i] - borrow < 0 THEN 1 ELSE 0,
                        Append(digits, (a[i] - b[i] - borrow + 2) % 2))

\* a - b exactly, for a >= b
ExactDifference(a, b) == DifferenceFrom(a, b, 1, 0, <<>>)

\* the place of the leading 1 of a, or 0 when a is zero
BitLength(a) ==
    LET ones == {i \in 1..F64_WIDTH : a[i] = 1}
    IN  IF ones = {} THEN 0 ELSE CHOOSE i \in ones : \A j \in ones : j <= i

\* a with its q lowest digits rounded away, to nearest and ties to even
RoundAway(a, q) ==
    LET kept == [i \in 1..F64_WIDTH |-> IF i <= q THEN 0 ELSE a[i]]
        ulp == [i \in 1..F64_WIDTH |-> IF i = q + 1 THEN 1 ELSE 0]
        rest == \E i \in 1..(q - 1) : a[i] = 1
    IN  IF a[q] = 1 /\ (rest \/ a[q + 1] = 1)
        THEN ExactSum(kept, ulp)
        ELSE ExactSum(kept, F64_ZERO)

\* the double nearest to a
RoundToF64(a) ==
    IF BitLength(a) <= F64_MANTISSA THEN a
    ELSE RoundAway(a, BitLength(a) - F64_MANTISSA)

\* current + delta of Resources::add for a delta >= 0
F64Add(current, delta) == RoundToF64(ExactSum(current, delta))

\* current + delta of Resources::add for the delta -amount of sub_all, where
\* current >= amount
F64Sub(current, amount) == RoundToF64(ExactDifference(current, amount))

\* Resources::has on doubles: current >= amount
F64AtLeast(current, amount) ==
    LET differ == {i \in 1..F64_WIDTH : current[i] # amount[i]}
    IN  differ = {} \/ current[CHOOSE i \in differ : \A j \in differ : j <= i] = 1

\* the orders in which the systems map of the test's snapshot (dig_site,
\* compost_heap) can iterate
SystemOrders == {<<"dig_site", "compost_heap">>, <<"compost_heap", "dig_site">>}

\* the systems process_systems collects: dig_site consumes nothing;
\* compost_heap runs when the dirt before any system is applied covers what
\* it consumes
CollectF64(amounts, order) ==
    LET Runs(id) == id = "dig_site" \/ F64AtLeast(amounts.dirt, F64_COMPOST_DIRT)
    IN  SelectSeq(order, Runs)

\* one collected system applied: consume, then generate
ApplyF64(amounts, id) ==
    IF id = "dig_site"
    THEN [amounts EXCEPT !.dirt = F64Add(@, F64_DIG_SITE_DIRT)]
    ELSE [amounts EXCEPT !.dirt = F64Sub(@, F64_COMPOST_DIRT),
                         !.nutrients = F64Add(@, F64_COMPOST_NUTRIENTS)]

RECURSIVE ApplyAllF64(_, _)
ApplyAllF64(amounts, ids) ==
    IF ids = <<>> THEN amounts
    ELSE ApplyAllF64(ApplyF64(amounts, Head(ids)), Tail(ids))

\* TickEngine::process_systems on the f64 amounts of one copy
process_systems_f64(amounts, order) ==
    ApplyAllF64(amounts, CollectF64(amounts, order))

\* two copies of one snapshot holding dirt and the two systems, each copy
\* with the iteration order of its own systems map; ticks counts the ticks
\* run on each
InitF64 ==
    /\ \E dirt \in F64Starts, order1 \in SystemOrders, order2 \in SystemOrders :
          ledger = [state1 |-> [dirt |-> dirt, nutrients |-> F64_ZERO],
                    state2 |-> [dirt |-> dirt, nutrients |-> F64_ZERO],
                    order1 |-> order1, order2 |-> order2, ticks |-> 0]
    /\ Engines(GameState_default, TickEngine_new(ToU64(55555)),
               TickEngine_new(ToU64(55555)), None)
    /\ bench = <<>>

\* one tick on each copy
TickF64 ==
    /\ ledger.ticks < MaxTicksF64
    /\ ledger' = [ledger EXCEPT
                     !.state1 = process_systems_f64(@, ledger.order1),
                     !.state2 = process_systems_f64(@, ledger.order2),
                     !.ticks = @ + 1]
    /\ UNCHANGED <<state, engine, events, probe, twin, start, calls, crossed,
                   journal, bench>>

NextF64 == TickF64

SpecF64 == InitF64 /\ [][NextF64]_vars

-----------------------------------------------------------------------------
(* System::disable and System::enable called in any order on one system *)

\* the rate maps a system may be built with: absent, empty, or with entries
RateMaps == {None, Some(EmptyMap), Some([dirt |-> 50]), Some([nutrients |-> 100])}

\* the live rate maps of a system
LiveMaps(system) == [consumes |-> system.consumes, generates |-> system.generates]

\* built: the maps the system was built with; held: the live maps before the
\* first disable() since the last enable(), if any; last: the latest call;
\* due: what held was before the latest call
InitSystem ==
    /\ \E consumes \in RateMaps, generates \in RateMaps :
          bench = [system |-> [bare_system("converter") EXCEPT
                                  !.consumes = consumes, !.generates = generates],
                   built |-> [consumes |-> consumes, generates |-> generates],
                   held |-> None, last |-> "new", due |-> None, calls |-> 0]
    /\ Engines(GameState_default, TickEngine_new(ToU64(42)), TickEngine_new(ToU64(42)),
               None)
    /\ ledger = <<>>

Disable ==
    /\ bench.calls < MaxSystemCalls
    /\ bench' = [system |-> disable(bench.system),
                 built |-> bench.built,
                 held |-> IF bench.held = None
                          THEN Some(LiveMaps(bench.system)) ELSE bench.held,
                 last |-> "disable", due |-> bench.held,
                 calls |-> bench.calls + 1]
    /\ UNCHANGED <<state, engine, events, probe, twin, start, calls, crossed,
                   ledger, journal>>

Enable ==
    /\ bench.calls < MaxSystemCalls
    /\ bench' = [system |-> enable(bench.system),
                 built |-> bench.built,
                 held |-> None, last |-> "enable", due |-> bench.held,
                 calls |-> bench.calls + 1]
    /\ UNCHANGED <<state, engine, events, probe, twin, start, calls, crossed,
                   ledger, journal>>

NextSystem == Disable \/ Enable

SpecSystem == InitSystem /\ [][NextSystem]_vars

-----------------------------------------------------------------------------
(* Offline progress (engine.rs, process_offline_progress): the host loads a *)
(* snapshot and lets the engine catch up to the wall clock.  Timestamps    *)
(* are seconds in units of 1/FP; bench holds the timestamp of the call.    *)

\* the systems whose operations one applied tick collects
OfflineOperations(s, ord) ==
    SelectSeq(Keys(s.systems, ord),
              LAMBDA id : ~is_disabled(s.systems[id])
                          /\ can_run(s.systems[id], s.resources))

\* `for (_system_id, consumes, generates) in operations`
RECURSIVE OfflineApply(_, _, _, _)
OfflineApply(resources, systems, ids, ord) ==
    IF ids = <<>> THEN resources
    ELSE OfflineApply(
             add_all(sub_all(resources, UnwrapOr(systems[Head(ids)].consumes, EmptyMap), ord),
                     UnwrapOr(systems[Head(ids)].generates, EmptyMap), ord),
             systems, Tail(ids), ord)

\* one entity of `for entity in &mut state.entities`: a year older, hungrier
\* by half its rate, fed if it is hungry and its food is there
OfflineEntity(entity, resources) ==
    LET aged == [entity EXCEPT !.age = @ + 1,
                               !.hunger = @ - (entity.hunger_rate \div 2)]
    IN  IF aged.hunger < HUNGER_THRESHOLD_EAT /\ IsSome(aged.food)
           /\ get(resources, aged.food[1]) >= ONE_FOOD
        THEN [entity |-> [aged EXCEPT !.hunger =
                             Min(@ + HUNGER_GAIN_FROM_EATING, MAX_HUNGER)],
              resources |-> add(resources, aged.food[1], -ONE_FOOD)]
        ELSE [entity |-> aged, resources |-> resources]

RECURSIVE OfflineEntities(_, _, _)
OfflineEntities(s, entities, done) ==
    IF entities = <<>> THEN [s EXCEPT !.entities = done]
    ELSE OfflineEntities(
             [s EXCEPT !.resources = OfflineEntity(Head(entities), s.resources).resources],
             Tail(entities),
             Append(done, OfflineEntity(Head(entities), s.resources).entity))

OfflineRetainBuriesAnts(s) ==
    [s EXCEPT !.entities =
                  SelectSeq(@, LAMBDA e : e.hunger > 0 /\ e.age < DEFAULT_MAX_AGE),
              !.graveyard.total_processed =
                  @ + Len(SelectSeq(s.entities,
                                    LAMBDA e : ~(e.hunger > 0 /\ e.age < DEFAULT_MAX_AGE)))]

\* `state.entities.retain(..)` of process_offline_progress
OfflineRetain(s) ==
    [s EXCEPT !.entities =
        SelectSeq(@, LAMBDA e : e.hunger > 0 /\ e.age < DEFAULT_MAX_AGE)]

\* the map m itself, held as a table of its entries
Table(m) == m @@ EmptyMap

\* the snapshot s itself, its resources held as a table
Settled(s) == [s EXCEPT !.resources = Table(@)]

\* one pass of the loop `for _ in 0..ticks_to_apply`
OfflineTick(s, ord) ==
    Settled(OfflineRetain(
        OfflineEntities(
            [s EXCEPT !.tick = @ + 1,
                      !.resources = Table(OfflineApply(s.resources, s.systems,
                                                       OfflineOperations(s, ord), ord))],
            s.entities, <<>>)))

\* n passes of the loop, the first half of them before the second; half is
\* the snapshot between the two halves
RECURSIVE OfflineTicks(_, _, _)
OfflineTicks(s, n, ord) ==
    IF n = 0 THEN s
    ELSE IF n = 1 THEN OfflineTick(s, ord)
    ELSE CHOOSE after \in {OfflineTicks(half, n - (n \div 2), ord) :
                              half \in {OfflineTicks(s, n \div 2, ord)}} : TRUE

\* `(elapsed_seconds as u64).min(MAX_OFFLINE_TICKS)` for elapsed_seconds > 0
TicksToApply(elapsed_seconds) == Min(elapsed_seconds \div FP, MAX_OFFLINE_TICKS)

OfflineProgressUncapped(s, e, current_timestamp, ord) ==
    IF s.last_save_timestamp = None THEN [s |-> s, e |-> e, ev |-> <<>>]
    ELSE IF current_timestamp - s.last_save_timestamp[1] <= 0
    THEN [s |-> s, e |-> e, ev |-> <<>>]
    ELSE IF (current_timestamp - s.last_save_timestamp[1]) \div FP < MIN_OFFLINE_TICKS
    THEN [s |-> s, e |-> e, ev |-> <<>>]
    ELSE [s |-> OfflineTicks(s, (current_timestamp - s.last_save_timestamp[1]) \div FP, ord),
          e |-> e, ev |-> <<>>]

\* TickEngine::process_offline_progress
process_offline_progress(s, e, current_timestamp, ord) ==
    IF s.last_save_timestamp = None THEN [s |-> s, e |-> e, ev |-> <<>>]
    ELSE IF current_timestamp - s.last_save_timestamp[1] <= 0
    THEN [s |-> s, e |-> e, ev |-> <<>>]
    ELSE IF TicksToApply(current_timestamp - s.last_save_timestamp[1]) < MIN_OFFLINE_TICKS
    THEN [s |-> s, e |-> e, ev |-> <<>>]
    ELSE [s |-> OfflineTicks(s, TicksToApply(current_timestamp - s.last_save_timestamp[1]),
                             ord),
          e |-> e, ev |-> <<>>]

\* the colony of test_offline_progress, saved at 1000.0 seconds: a worker
\* that need not eat, a generator of fungus
OfflineTestSnapshot ==
    [GameState_default EXCEPT
        !.resources = [fungus |-> 1000000],
        !.systems = [dig_site |-> new_generator([fungus |-> 10000])],
        !.entities = <<[new_worker(Sid(1), "origin") EXCEPT !.hunger = 800000]>>,
        !.last_save_timestamp = Some(10000000)]

\* a colony in the middle of things, saved at 1000.0 seconds if saved:
\* a blighted compost tile and its disabled heap, a converter that runs out
\* of dirt, an old ant, a starving ant and one visitor of each kind near the
\* end of its stay, corpses, a queued action and a maintenance goal
OfflineColonySnapshot(saved, fungus) ==
    [GameState_default EXCEPT
        !.tick = 7000,
        !.resources = [dirt |-> 300, fungus |-> fungus, influence |-> 500000],
        !.systems =
            [compost_heap |->
                 [system_type |-> "converter", generates |-> None, consumes |-> None,
                  corpse_boosts |-> <<[expires_at_tick |-> 7005, bonus |-> CORPSE_NUTRIENT_BOOST]>>,
                  original_generates |-> Some([nutrients |-> 100]),
                  original_consumes |-> Some([dirt |-> 50])],
             dig_site |-> new_converter([dirt |-> 50], [ore |-> 100]),
             queen_chamber |-> bare_system("spawner"),
             receiver |-> bare_system("antenna")],
        !.map = [tiles |-> TwoTiles(CompostTile(3000, TRUE, 5))],
        !.entities =
            <<[new_worker(Sid(1), "origin") EXCEPT !.age = 7188],
              [new_undertaker(Sid(2), "origin") EXCEPT
                  !.age = 50, !.hunger = 509000,
                  !.processing_corpse = Some(TRUE), !.processing_ticks = Some(100)],
              [new_hungry(Sid(3)) EXCEPT !.age = 895],
              [new_wanderer(Sid(4)) EXCEPT !.age = 1795],
              [new_observer(Sid(5)) EXCEPT !.age = 3500, !.hunger = 25000]>>,
        !.queues = [actions |-> <<[id |-> "a1", action_type |-> "dig",
                                   ticks_remaining |-> 5,
                                   effects |-> Effect([dirt |-> 10000])]>>,
                    events |-> <<"card">>],
        !.meta = [boredom |-> 30, receiver_silent |-> TRUE,
                  receiver_failed_tick |-> Some(6990),
                  goals |-> [receiver_maintenance |->
                                [last_maintained |-> 3000,
                                 maintenance_interval_ticks |-> 3600]]],
        !.graveyard = [corpses |-> <<OldCorpse(1, 6990)>>, total_processed |-> 3],
        !.last_save_timestamp = IF saved THEN Some(10000000) ELSE None]

OfflineSnapshots ==
    {OfflineTestSnapshot}
    \cup {OfflineColonySnapshot(saved, fungus) :
              saved \in BOOLEAN, fungus \in {5000, 1000000}}

\* the wall clock at the call: before and at the save, 9.9999, 10, 10.5, 13,
\* 100, 3599.5, 3600 and 5000 seconds after it
Timestamps ==
    {9900000, 10000000, 10099999, 10100000, 10105000, 10130000, 11000000,
     45995000, 46000000, 60000000}

\* engines as new() builds them and as they look after spawns and summons
InitOffline ==
    /\ \E snapshot \in OfflineSnapshots, used \in BOOLEAN :
          LET fresh == TickEngine_new(ToU64(42))
              e1 == IF used THEN [fresh EXCEPT !.last_spawn_tick = 6000,
                                               !.last_summon_tick = 6900]
                    ELSE fresh
          IN  Engines(snapshot, e1, e1, None)
    /\ ledger = <<>>
    /\ bench = [current_timestamp |-> 0]

\* the engine moves on to the result r of its process_offline_progress() call
AdvanceOffline(r) ==
    /\ state' = r.s
    /\ engine' = r.e
    /\ events' = r.ev
    /\ probe' = NoProbe(state, engine)

\* one process_offline_progress() call
OfflineProgress ==
    /\ calls < MaxOfflineCalls
    /\ \E current_timestamp \in Timestamps, ord \in HashOrders :
          /\ AdvanceOffline(process_offline_progress(state, engine, current_timestamp, ord))
          /\ bench' = [current_timestamp |-> current_timestamp]
    /\ calls' = calls + 1
    /\ UNCHANGED <<twin, start, crossed, ledger, journal>>

NextOffline == OfflineProgress

SpecOffline == InitOffline /\ [][NextOffline]_vars

-----------------------------------------------------------------------------
(* Properties *)

\* the multiset of the events of one tick
EventBag(evs) ==
    [x \in Range(evs) |-> Cardinality({i \in DOMAIN evs : evs[i] = x})]

\* what the phases read of an engine besides the snapshot
Book(e) ==
    [seed |-> e.seed, last_spawn_tick |-> e.last_spawn_tick,
     last_summon_tick |-> e.last_summon_tick]

\* both engines have just run a tick
BothTicked == probe.after # <<>> /\ twin.probe.after # <<>>

\* the events of one kind, in the order returned
OfKind(evs, kind) ==
    LET Is(x) == x.kind = kind IN SelectSeq(evs, Is)

\* the event kinds that report a random outcome
RandomKinds ==
    {"BlightStruck", "AntsSpawned", "EmergencySpawn", "InfluenceSpent", "VisitorArrived"}

\* C1 over exact amounts: two engines built alike with one seed and run on
\* two copies of one snapshot have, after every tick, identical states and
\* the same multiset of events for that tick, whatever order each one's maps
\* iterate in, as long as no sum of amounts is rounded.
C1_Determinism ==
    twin.paired => /\ twin.state = state
                   /\ EventBag(twin.events) = EventBag(events)

\* C1 case: the third tick or later of a pair whose event lists came out in
\* different orders, in a tick that drew from the generator
C1_Witness ==
    /\ twin.paired
    /\ calls >= 3
    /\ twin.events # events
    /\ probe.draws # <<>>

\* C1: two copies of one snapshot, run for the same number of ticks, end with
\* identical resource amounts, the amounts being f64 values.
C1_BitIdentical ==
    ledger.ticks > 0 => ledger.state1 = ledger.state2

\* C1 case: the copies of the snapshot with no dirt, iterated in opposite
\* orders, agree after two ticks and differ after the third
C1_Diverged ==
    /\ ledger.ticks = 3
    /\ ledger.order1 # ledger.order2
    /\ ledger.state1.nutrients = ledger.state2.nutrients
    /\ ledger.state1.dirt # ledger.state2.dirt

\* C2: the words a tick draws are fixed by the base seed, the tick number,
\* the snapshot at the start of the tick and the engine's last-spawn and
\* last-summon ticks; how many words earlier ticks drew does not matter.
C2_RandomOutcomes ==
    (/\ BothTicked
     /\ twin.probe.pre.s = probe.pre.s
     /\ Book(twin.probe.pre.e) = Book(probe.pre.e))
        => twin.probe.draws = probe.draws

\* C2 case: the same tick run by an engine that has drawn before and by a
\* rebuilt one that has not, with equal bookkeeping, and words are drawn
C2_Witness ==
    /\ BothTicked
    /\ twin.probe.pre.s = probe.pre.s
    /\ Book(twin.probe.pre.e) = Book(probe.pre.e)
    /\ twin.probe.pre.e.drawn # probe.pre.e.drawn
    /\ probe.draws # <<>>

\* C2 as stated: seed, tick number and starting snapshot alone fix every
\* random outcome (roll result, spawned ids, visitor) that both runs report
C2_SnapshotOnly ==
    (BothTicked /\ twin.probe.pre.s = probe.pre.s)
        => \A kind \in RandomKinds :
              (OfKind(events, kind) # <<>> /\ OfKind(twin.events, kind) # <<>>)
                  => OfKind(twin.events, kind) = OfKind(events, kind)

\* C3: every call advances state.tick by exactly one, so after N calls from
\* tick T0 it is T0 + N, and every event of the call carries the new tick.
C3_TickAdvances ==
    /\ state.tick = start.state.tick + calls
    /\ calls > 0 => state.tick = probe.pre.s.tick + 1
    /\ \A i \in DOMAIN events : events[i].tick = state.tick

\* C3 case: three calls or more, the last one returning several events
C3_Witness ==
    /\ calls >= 3
    /\ Len(events) >= 3

\* the phase that pushes events of a kind
PhaseOf(kind) ==
    CASE kind = "ActionComplete" -> 1
      [] kind = "SystemProduced" -> 2
      [] kind \in {"EntityAte", "InfluenceTransformed", "EntityDied",
                   "VisitorDeparted"} -> 3
      [] kind = "CorpseProcessed" -> 4
      [] kind \in {"BlightStruck", "BlightKill", "BlightCleared"} -> 5
      [] kind \in {"AntsSpawned", "EmergencySpawn"} -> 6
      [] kind \in {"ReceiverSilent", "ReceiverRestored", "InfluenceSpent",
                   "VisitorArrived", "SummoningFailed"} -> 7
      [] kind = "PassiveGeneration" -> 8
      [] kind = "ThresholdCrossed" -> 9
      [] kind = "BoredomHigh" -> 10

\* the positions in events of what phase k pushed in the latest tick
PhaseSlice(k) ==
    ((IF k = 1 THEN 0 ELSE probe.after[k - 1].nev) + 1) .. probe.after[k].nev

\* the events phase k pushed in the latest tick
PhaseEvents(k) ==
    SubSeq(events, (IF k = 1 THEN 0 ELSE probe.after[k - 1].nev) + 1, probe.after[k].nev)

\* C4: the returned events are in phase order (actions, systems, entities,
\* undertakers, blight, queen, receiver, visitors, thresholds, boredom), and
\* each was pushed by the phase its kind belongs to.
C4_PhaseOrder ==
    /\ \A i \in DOMAIN events : \A j \in DOMAIN events :
          i < j => PhaseOf(events[i].kind) <= PhaseOf(events[j].kind)
    /\ probe.after # <<>> =>
          \A k \in 1..10 : \A i \in PhaseSlice(k) : PhaseOf(events[i].kind) = k

\* C4 case: one tick returned events of four phases or more, among them an
\* ActionComplete and a SystemProduced
C4_Witness ==
    /\ Cardinality({PhaseOf(events[i].kind) : i \in DOMAIN events}) >= 4
    /\ OfKind(events, "ActionComplete") # <<>>
    /\ OfKind(events, "SystemProduced") # <<>>

\* the rates of a generator-and-converter snapshot
Rates(s) ==
    [d0 |-> get(s.resources, "dirt"),
     g |-> s.systems["dig_site"].generates[1]["dirt"],
     c |-> s.systems["compost_heap"].consumes[1]["dirt"],
     n |-> s.systems["compost_heap"].generates[1]["nutrients"]]

\* the converter found its input at the start of each of the first t ticks
Satisfiable(r, t) == \A k \in 0..(t - 1) : r.d0 + (r.g - r.c) * k >= r.c

C5_EdgeWitness ==
    /\ start.state \in ConserveSnapshots
    /\ calls = 1
    /\ Rates(start.state).d0 = Rates(start.state).c
    /\ get(state.resources, "nutrients") = Rates(start.state).n

\* C6: in the entities phase an entity (the Hungry visitor eating influence
\* apart) whose hunger after depletion is below 50 and whose declared food
\* has at least 1 unit in stock at its turn consumes exactly 1 unit, gains 30
\* hunger capped at 100 and gets exactly one EntityAte; any other such entity
\* consumes nothing, keeps its hunger and gets no EntityAte.
C6_Eating ==
    \A i \in DOMAIN probe.steps :
        LET st == probe.steps[i]
            ate == Cardinality({j \in DOMAIN events :
                                   /\ events[j].kind = "EntityAte"
                                   /\ events[j].entity_id = st.id})
        IN  ~st.special =>
               IF /\ st.hunger_dep < 50 * FP
                  /\ IsSome(st.food)
                  /\ st.stock >= 1 * FP
               THEN /\ st.stock_out = st.stock - 1 * FP
                    /\ st.hunger_out = Min(st.hunger_dep + 30 * FP, 100 * FP)
                    /\ ate = 1
               ELSE /\ st.stock_out = st.stock
                    /\ st.hunger_out = st.hunger_dep
                    /\ ate = 0

\* C6 case: in one tick one entity ate, one was below 50 with less than one
\* unit of its food left, and one stood exactly at 50 after depletion
C6_Witness ==
    /\ \E i \in DOMAIN probe.steps :
          ~probe.steps[i].special /\ probe.steps[i].stock_out < probe.steps[i].stock
    /\ \E i \in DOMAIN probe.steps :
          /\ ~probe.steps[i].special
          /\ probe.steps[i].hunger_dep < 50 * FP
          /\ IsSome(probe.steps[i].food)
          /\ probe.steps[i].stock < 1 * FP
    /\ \E i \in DOMAIN probe.steps :
          ~probe.steps[i].special /\ probe.steps[i].hunger_dep = 50 * FP

\* the ids of the entities in a list
IdsOf(entities) == {entities[i].id : i \in DOMAIN entities}

\* the corpses of one entity with a given death tick and cause
CorpsesOf(graveyard, id, death_tick, cause) ==
    {j \in DOMAIN graveyard.corpses :
        /\ graveyard.corpses[j].entity_id = id
        /\ graveyard.corpses[j].death_tick = death_tick
        /\ graveyard.corpses[j].cause = cause}

\* C7: an ant whose hunger is at or below 0 after the depletion and eating
\* step is gone from the live list at the end of phase 3, has exactly one
\* corpse (cause starvation, death_tick the current tick) and exactly one
\* EntityDied with cause starvation; an entity left with hunger above 0 and
\* age below max_age is still in the live list.
C7_Starvation ==
    probe.after # <<>> =>
      \A i \in DOMAIN probe.steps :
        LET st == probe.steps[i]
            after3 == probe.after[3].s
            died == {j \in DOMAIN events :
                        /\ events[j].kind = "EntityDied"
                        /\ events[j].entity_id = st.id
                        /\ events[j].cause = "starvation"}
        IN  /\ (st.entity_type = "ant" /\ st.hunger_out <= 0) =>
                  /\ st.id \notin IdsOf(after3.entities)
                  /\ Cardinality(CorpsesOf(after3.graveyard, st.id, state.tick,
                                           "starvation")) = 1
                  /\ Cardinality({j \in DOMAIN after3.graveyard.corpses :
                                     after3.graveyard.corpses[j].entity_id = st.id}) = 1
                  /\ Cardinality(died) = 1
            /\ (st.hunger_out > 0 /\ st.age < st.max_age) =>
                  /\ st.id \in IdsOf(after3.entities)
                  /\ died = {}

\* C7 case: in one tick an ant starved at hunger exactly 0, another below 0,
\* and a third entity stayed alive
C7_Witness ==
    /\ \E i \in DOMAIN probe.steps :
          probe.steps[i].entity_type = "ant" /\ probe.steps[i].hunger_out = 0
    /\ \E i \in DOMAIN probe.steps :
          probe.steps[i].entity_type = "ant" /\ probe.steps[i].hunger_out < 0
    /\ \E i \in DOMAIN probe.steps :
          probe.steps[i].hunger_out > 0 /\ probe.steps[i].age < probe.steps[i].max_age

\* C8: no corpse in the graveyard belongs to a visitor, whatever removed the
\* visitor from the live list (the starting graveyards hold ant corpses only).
C8_NoVisitorCorpse ==
    \A j \in DOMAIN state.graveyard.corpses :
        state.graveyard.corpses[j].entity_type # "visitor"

\* C9: for every resource r and threshold h, the tick returns exactly one
\* ThresholdCrossed(r, h) if the amount of r before phase 1 (0 if absent) was
\* below h and its amount after phase 8 is h or more, and none otherwise; so
\* nothing is reported for a downward crossing, and a threshold crossed again
\* after a fall is reported again.
C9_Thresholds ==
    probe.after # <<>> =>
      \A r \in Range(KeyOrder) \cup DOMAIN probe.after[8].s.resources :
        \A i \in DOMAIN RESOURCE_THRESHOLDS :
          LET h == RESOURCE_THRESHOLDS[i]
              reported == {j \in DOMAIN events :
                              /\ events[j].kind = "ThresholdCrossed"
                              /\ events[j].resource = r
                              /\ events[j].threshold = h}
              upward == /\ get(probe.pre.s.resources, r) < h
                        /\ get(probe.after[8].s.resources, r) >= h
          IN  Cardinality(reported) = IF upward THEN 1 ELSE 0

\* C9 case: a threshold reported in an earlier tick is reported again, the
\* amount having fallen below it in between and now standing exactly on it
C9_Witness ==
    \E j \in DOMAIN events :
        /\ events[j].kind = "ThresholdCrossed"
        /\ <<events[j].resource, events[j].threshold>> \in crossed
        /\ events[j].current = events[j].threshold

\* C9 case: a downward crossing in the latest tick, nothing reported for it
C9_DownwardWitness ==
    /\ probe.after # <<>>
    /\ \E r \in DOMAIN probe.pre.s.resources : \E i \in DOMAIN RESOURCE_THRESHOLDS :
          /\ probe.pre.s.resources[r] >= RESOURCE_THRESHOLDS[i]
          /\ get(probe.after[8].s.resources, r) < RESOURCE_THRESHOLDS[i]

\* the entities standing on the compost tile, and the others, in list order
OnCompost(entities) ==
    LET Is(x) == x.tile = "compost" IN SelectSeq(entities, Is)

OffCompost(entities) ==
    LET Is(x) == x.tile # "compost" IN SelectSeq(entities, Is)

\* the blight roll of the latest tick came out a success: the word drawn for
\* it falls below the contamination taken as a probability
BlightRollSucceeded(contamination) ==
    \E i \in DOMAIN probe.draws :
        /\ probe.draws[i].what = "blight"
        /\ probe.draws[i].word * FP < contamination * WORD_RANGE

\* C10: when the blight phase starts with the compost tile not blighted, its
\* contamination above 0 and the roll succeeds, the phase ends with the tile
\* blighted with 300 ticks remaining, one BlightStruck pushed, compost_heap
\* stripped of its rates and of its corpse boosts, every entity on the
\* compost tile gone from the live list, appended to the graveyard with
\* cause blight and reported by exactly one BlightKill, and the other
\* entities as they were; with contamination 0 the phase changes nothing.
C10_BlightStrike ==
    (probe.after # <<>> /\ "compost" \in DOMAIN probe.after[4].s.map.tiles) =>
      LET before == probe.after[4].s
          after == probe.after[5].s
          tile == before.map.tiles["compost"]
          contamination == UnwrapOr(tile.contamination, 0)
          killed == OnCompost(before.entities)
          pushed == PhaseEvents(5)
      IN  /\ (~is_blighted(tile) /\ contamination > 0
                 /\ BlightRollSucceeded(contamination)) =>
                /\ after.map.tiles["compost"].blighted = Some(TRUE)
                /\ after.map.tiles["compost"].blight_ticks_remaining = Some(300)
                /\ Len(OfKind(pushed, "BlightStruck")) = 1
                /\ "compost_heap" \in DOMAIN before.systems =>
                      /\ after.systems["compost_heap"].generates = None
                      /\ after.systems["compost_heap"].consumes = None
                      /\ after.systems["compost_heap"].corpse_boosts = <<>>
                      /\ IsSome(before.systems["compost_heap"].generates) =>
                            is_disabled(after.systems["compost_heap"])
                /\ after.entities = OffCompost(before.entities)
                /\ after.graveyard.corpses =
                      before.graveyard.corpses \o
                          [i \in DOMAIN killed |->
                              [entity_id |-> killed[i].id,
                               entity_type |-> killed[i].entity_type,
                               death_tick |-> state.tick,
                               cause |-> "blight",
                               tile |-> "compost"]]
                /\ Len(OfKind(pushed, "BlightKill")) = Len(killed)
                /\ \A i \in DOMAIN killed :
                      Cardinality({j \in DOMAIN pushed :
                                      /\ pushed[j].kind = "BlightKill"
                                      /\ pushed[j].entity_id = killed[i].id}) = 1
          /\ (~is_blighted(tile) /\ contamination = 0) =>
                /\ pushed = <<>>
                /\ after = before

\* C10 case: a strike that killed two entities or more on the compost tile,
\* spared one elsewhere and cleared corpse boosts that were still running
C10_Witness ==
    /\ probe.after # <<>>
    /\ OfKind(events, "BlightStruck") # <<>>
    /\ Len(OnCompost(probe.after[4].s.entities)) >= 2
    /\ OffCompost(probe.after[4].s.entities) # <<>>
    /\ probe.after[4].s.systems["compost_heap"].corpse_boosts # <<>>

\* C10 case: a tick on an unblighted compost tile with contamination 0 and
\* entities standing on it
C10_ZeroWitness ==
    /\ probe.after # <<>>
    /\ "compost" \in DOMAIN probe.after[4].s.map.tiles
    /\ probe.after[4].s.map.tiles["compost"].contamination = Some(0)
    /\ ~is_blighted(probe.after[4].s.map.tiles["compost"])
    /\ OnCompost(probe.after[4].s.entities) # <<>>

\* the compost tile of the first engine's snapshot
Compost == state.map.tiles["compost"]

\* C11: when BlightStruck was emitted at tick t, the compost tile is blighted
\* at the end of every tick from t to t+299, the ticks t+1 .. t+300 make no
\* blight roll and emit no BlightStruck, BlightCleared is emitted at tick
\* t+300 and at no other tick after t, and after tick t+300 the tile is not
\* blighted and its contamination is 0.
C11_BlightDuration ==
    journal.struck[2] # 0 =>
        LET t == journal.struck[2]
        IN  /\ state.tick < t + BLIGHT_DURATION => is_blighted(Compost)
            /\ (state.tick > t /\ state.tick <= t + BLIGHT_DURATION) =>
                   \A i \in DOMAIN probe.draws : probe.draws[i].what # "blight"
            /\ HasKind(events, "BlightStruck") =>
                   /\ state.tick = t
                   /\ journal.struck[1] # 0 =>
                          t > journal.struck[1] + BLIGHT_DURATION
            /\ HasKind(events, "BlightCleared") <=> state.tick = t + BLIGHT_DURATION
            /\ state.tick = t + BLIGHT_DURATION =>
                   /\ ~is_blighted(Compost)
                   /\ Compost.contamination = Some(0)
                   /\ journal.cleared = state.tick

\* C11 case: the tick that clears a blight the run saw strike 300 ticks ago
C11_Witness ==
    /\ journal.struck[2] # 0
    /\ state.tick = journal.struck[2] + BLIGHT_DURATION
    /\ HasKind(events, "BlightCleared")
    /\ probe.pre.s.map.tiles["compost"].blight_ticks_remaining = Some(1)

\* the snapshot without its compost_heap system
WithoutCompostHeap(s) ==
    [s EXCEPT !.systems = [id \in (DOMAIN @) \ {"compost_heap"} |-> @[id]]]

\* the resources the systems phase of the latest tick would have left had
\* there been no compost_heap system
ResourcesWithoutCompostHeap ==
    process_systems([s |-> WithoutCompostHeap(probe.after[1].s), e |-> engine,
                     ev |-> <<>>, rng |-> SeededRng_new(engine.seed),
                     steps |-> <<>>, draws |-> <<>>, after |-> <<>>],
                    KeyOrder).s.resources

\* C12: in the tick that clears a blight, the compost_heap system ends with
\* the consumes and generates maps it had when the blight phase of the strike
\* began; in every tick after the strike up to and including the clearing
\* tick the systems phase reports nothing for compost_heap and leaves the
\* resources as if there were no compost_heap.
C12_BlightRestore ==
    journal.struck[2] # 0 =>
        /\ HasKind(events, "BlightCleared") => CompostMaps(state) = journal.maps
        /\ (state.tick > journal.struck[2]
               /\ state.tick <= journal.struck[2] + BLIGHT_DURATION) =>
              /\ \A i \in DOMAIN events :
                     events[i].kind = "SystemProduced" =>
                         events[i].system_id # "compost_heap"
              /\ probe.after[2].s.resources = ResourcesWithoutCompostHeap

\* C12 case: the clearing tick of a blight that struck a compost_heap with
\* both maps present, while another system went on producing
C12_Witness ==
    /\ journal.struck[2] # 0
    /\ HasKind(events, "BlightCleared")
    /\ IsSome(journal.maps)
    /\ journal.maps[1].consumes = Some([dirt |-> 50])
    /\ journal.maps[1].generates = Some([nutrients |-> 100])
    /\ state.systems["compost_heap"].consumes = Some([dirt |-> 50])
    /\ \E i \in DOMAIN events :
           events[i].kind = "SystemProduced" /\ events[i].system_id = "dig_site"

\* whether the system holds a saved original map
HasSavedMaps(system) ==
    IsSome(system.original_generates) \/ IsSome(system.original_consumes)

\* C13: after any sequence of disable() and enable() calls on any system, the
\* system holds saved original maps exactly when is_disabled() is true, a
\* disabled system has neither a consumes nor a generates map, and after an
\* enable() that follows one or more disable() calls the live maps are those
\* the system had before the first of them.
C13_EnableDisable ==
    /\ HasSavedMaps(bench.system) <=> is_disabled(bench.system)
    /\ is_disabled(bench.system) =>
           bench.system.consumes = None /\ bench.system.generates = None
    /\ (bench.last = "enable" /\ IsSome(bench.due)) =>
           LiveMaps(bench.system) = bench.due[1]

\* C13 case: a system built with a consumes map and no generates map, disabled
\* twice and enabled, has lost its consumes map
C13_ConsumesLost ==
    /\ bench.last = "enable"
    /\ bench.calls = 3
    /\ IsSome(bench.due)
    /\ bench.due[1] = [consumes |-> Some([dirt |-> 50]), generates |-> None]
    /\ LiveMaps(bench.system) = [consumes |-> None, generates |-> None]

\* C13 for the systems built with a generates map: the three parts of C13
\* hold after every sequence of calls.
C13_WithGenerates ==
    IsSome(bench.built.generates) =>
        /\ HasSavedMaps(bench.system) <=> is_disabled(bench.system)
        /\ is_disabled(bench.system) =>
               bench.system.consumes = None /\ bench.system.generates = None
        /\ (bench.last = "enable" /\ IsSome(bench.due)) =>
               LiveMaps(bench.system) = bench.due[1]

\* C13 case: a system built with both maps, disabled twice and enabled
C13_WithGeneratesWitness ==
    /\ bench.built = [consumes |-> Some([dirt |-> 50]),
                      generates |-> Some([nutrients |-> 100])]
    /\ bench.last = "enable"
    /\ bench.calls = 3
    /\ IsSome(bench.due)
    /\ LiveMaps(bench.system) = bench.built

\* whether the snapshot has a blighted compost tile
CompostBlighted(s) ==
    "compost" \in DOMAIN s.map.tiles /\ is_blighted(s.map.tiles["compost"])

\* C14: in a tick that starts with the compost tile blighted, the undertaker
\* phase leaves the whole snapshot as it found it (every undertaker's
\* processing flag and counter, the graveyard's corpses and total_processed,
\* the corpse boosts, the contamination) and pushes no event.
C14_UndertakersSkipped ==
    (probe.after # <<>> /\ CompostBlighted(probe.pre.s)) =>
        /\ probe.after[4].s = probe.after[3].s
        /\ probe.after[4].e = probe.after[3].e
        /\ probe.after[4].nev = probe.after[3].nev
        /\ ~HasKind(events, "CorpseProcessed")

\* C14 case: a tick that starts blighted with corpses waiting, one undertaker
\* one tick short of delivering and another one idle
C14_Witness ==
    /\ probe.after # <<>>
    /\ CompostBlighted(probe.pre.s)
    /\ has_corpses(probe.after[3].s.graveyard)
    /\ \E i \in DOMAIN probe.after[3].s.entities :
           /\ probe.after[3].s.entities[i].role = Some("undertaker")
           /\ probe.after[3].s.entities[i].processing_corpse = Some(TRUE)
           /\ probe.after[3].s.entities[i].processing_ticks =
                  Some(CORPSE_PROCESSING_TICKS - 1)
    /\ \E i \in DOMAIN probe.after[3].s.entities :
           /\ probe.after[3].s.entities[i].role = Some("undertaker")
           /\ probe.after[3].s.entities[i].processing_corpse = Some(FALSE)

\* the undertakers that delivered their corpse in the latest tick
Delivered ==
    {id \in Range(UndertakerIds(probe.after[3].s.entities)) :
        /\ Processing(probe.after[3].s.entities, id)
        /\ ~Processing(probe.after[4].s.entities, id)}

\* the contamination of the compost tile of a snapshot, 0 without one
ContaminationOf(s) ==
    IF "compost" \in DOMAIN s.map.tiles
    THEN UnwrapOr(s.map.tiles["compost"].contamination, 0) ELSE 0

\* the corpse boosts of the compost_heap system of a snapshot
BoostsOf(s) ==
    IF has_system(s, "compost_heap") THEN s.systems["compost_heap"].corpse_boosts
    ELSE <<>>

\* every undertaker the journal follows that met no skipped phase is still at
\* work before tick at + 120 and delivered at tick at + 120
DeliveredOnTime ==
    \A id \in DOMAIN journal.started :
        journal.started[id].skipped = 0 =>
            /\ journal.started[id].done = 0 =>
                   state.tick < journal.started[id].at + CORPSE_PROCESSING_TICKS
            /\ journal.started[id].done # 0 =>
                   journal.started[id].done =
                       journal.started[id].at + CORPSE_PROCESSING_TICKS

\* every undertaker that delivered in the latest tick is idle with its
\* counter at 0
DeliveredIdle ==
    \A id \in Delivered :
        /\ EntityOf(probe.after[4].s.entities, id)[1].processing_corpse = Some(FALSE)
        /\ EntityOf(probe.after[4].s.entities, id)[1].processing_ticks = Some(0)

\* C15: an undertaker that takes a corpse at tick s and meets no blighted
\* tick delivers at tick s + 120; the undertakers that deliver in a tick are
\* idle with their counter at 0 afterwards, and each delivery adds one corpse
\* boost (bonus 0.1, expiring 600 ticks later) to compost_heap, adds 0.01 to
\* the contamination of the compost tile, adds 1 to total_processed and
\* emits one CorpseProcessed event carrying the total_processed and the
\* contamination it left.
C15_Completion ==
    probe.after # <<>> =>
        /\ DeliveredOnTime
        /\ DeliveredIdle
        /\ BoostsOf(probe.after[4].s) =
               BoostsOf(probe.after[3].s)
                   \o [k \in 1..Cardinality(Delivered) |->
                          [expires_at_tick |-> state.tick + CORPSE_BOOST_DURATION,
                           bonus |-> CORPSE_NUTRIENT_BOOST]]
        /\ ContaminationOf(probe.after[4].s) =
               ContaminationOf(probe.after[3].s)
                   + Cardinality(Delivered) * CONTAMINATION_PER_CORPSE
        /\ probe.after[4].s.graveyard.total_processed =
               probe.after[3].s.graveyard.total_processed + Cardinality(Delivered)
        /\ Len(PhaseEvents(4)) = Cardinality(Delivered)
        /\ \A k \in 1..Len(PhaseEvents(4)) :
               /\ PhaseEvents(4)[k].kind = "CorpseProcessed"
               /\ PhaseEvents(4)[k].undertaker_id \in Delivered
               /\ PhaseEvents(4)[k].total_processed =
                      probe.after[3].s.graveyard.total_processed + k
               /\ PhaseEvents(4)[k].contamination =
                      ContaminationOf(probe.after[3].s) + k * CONTAMINATION_PER_CORPSE

\* C15 case: on a map without a compost tile an undertaker delivers 120 ticks
\* after it took its corpse, and the delivery is neither counted nor reported
C15_Uncounted ==
    /\ probe.after # <<>>
    /\ "compost" \notin DOMAIN state.map.tiles
    /\ \E id \in Delivered :
           /\ id \in DOMAIN journal.started
           /\ journal.started[id].done = journal.started[id].at + CORPSE_PROCESSING_TICKS
    /\ probe.after[4].s.graveyard.total_processed =
           probe.after[3].s.graveyard.total_processed
    /\ ~HasKind(events, "CorpseProcessed")

\* C15 where the compost tile exists: the timing and the idle undertaker as
\* in C15; each delivery adds one boost if there is a compost_heap system,
\* adds 0.01 contamination up to the cap of 1.0, adds 1 to total_processed
\* and emits one CorpseProcessed event with the values it left.
C15_CompletionOnCompost ==
    (probe.after # <<>> /\ "compost" \in DOMAIN state.map.tiles) =>
        /\ DeliveredOnTime
        /\ DeliveredIdle
        /\ BoostsOf(probe.after[4].s) =
               IF has_system(state, "compost_heap")
               THEN BoostsOf(probe.after[3].s)
                        \o [k \in 1..Cardinality(Delivered) |->
                               [expires_at_tick |-> state.tick + CORPSE_BOOST_DURATION,
                                bonus |-> CORPSE_NUTRIENT_BOOST]]
               ELSE <<>>
        /\ ContaminationOf(probe.after[4].s) =
               Min(ContaminationOf(probe.after[3].s)
                       + Cardinality(Delivered) * CONTAMINATION_PER_CORPSE,
                   MAX_CONTAMINATION)
        /\ probe.after[4].s.graveyard.total_processed =
               probe.after[3].s.graveyard.total_processed + Cardinality(Delivered)
        /\ Len(PhaseEvents(4)) = Cardinality(Delivered)
        /\ \A k \in 1..Len(PhaseEvents(4)) :
               /\ PhaseEvents(4)[k].kind = "CorpseProcessed"
               /\ PhaseEvents(4)[k].undertaker_id \in Delivered
               /\ PhaseEvents(4)[k].total_processed =
                      probe.after[3].s.graveyard.total_processed + k
               /\ PhaseEvents(4)[k].contamination =
                      Min(ContaminationOf(probe.after[3].s)
                              + k * CONTAMINATION_PER_CORPSE,
                          MAX_CONTAMINATION)

\* C15 case: a delivery on a compost tile, 120 ticks after the corpse was
\* taken
C15_OnCompostWitness ==
    /\ probe.after # <<>>
    /\ "compost" \in DOMAIN state.map.tiles
    /\ HasKind(events, "CorpseProcessed")
    /\ \E id \in Delivered :
           /\ id \in DOMAIN journal.started
           /\ journal.started[id].skipped = 0
           /\ journal.started[id].done = journal.started[id].at + CORPSE_PROCESSING_TICKS

\* whether sequence p is the beginning of sequence s
IsPrefix(p, s) == Len(p) <= Len(s) /\ SubSeq(s, 1, Len(p)) = p

\* the undertakers that took a corpse in the latest tick
Began ==
    {id \in Range(UndertakerIds(probe.after[3].s.entities)) :
        /\ ~Processing(probe.after[3].s.entities, id)
        /\ Processing(probe.after[4].s.entities, id)}

\* the undertakers that were idle when the undertaker phase began
Idle ==
    {id \in Range(UndertakerIds(probe.after[3].s.entities)) :
        ~Processing(probe.after[3].s.entities, id)}

\* C16: the graveyard lists its corpses in arrival order (the phases that add
\* corpses append them); in the undertaker phase the corpses removed are the
\* oldest ones, one for each undertaker that starts processing, and the rest
\* keep their order; every idle undertaker starts processing as long as a
\* corpse is left, and with an empty graveyard the idle undertakers stay as
\* they were and nothing is removed.
C16_GraveyardFifo ==
    probe.after # <<>> =>
        LET waiting == probe.after[3].s.graveyard.corpses
            left == probe.after[4].s.graveyard.corpses
        IN  /\ IsPrefix(probe.pre.s.graveyard.corpses, waiting)
            /\ left = SubSeq(waiting, Cardinality(Began) + 1, Len(waiting))
            /\ IsPrefix(left, state.graveyard.corpses)
            /\ ~CompostBlighted(probe.after[3].s) =>
                   Cardinality(Began) = Min(Cardinality(Idle), Len(waiting))
            /\ waiting = <<>> =>
                   /\ Began = {}
                   /\ \A id \in Idle :
                          EntityOf(probe.after[4].s.entities, id) =
                              EntityOf(probe.after[3].s.entities, id)

\* C16 case: one undertaker takes the older of two corpses, the younger of
\* which arrived in the same tick
C16_Witness ==
    /\ probe.after # <<>>
    /\ Cardinality(Began) = 1
    /\ Len(probe.pre.s.graveyard.corpses) = 1
    /\ Len(probe.after[3].s.graveyard.corpses) = 2
    /\ probe.after[4].s.graveyard.corpses = Tail(probe.after[3].s.graveyard.corpses)
    /\ probe.after[3].s.graveyard.corpses[1].death_tick
           < probe.after[3].s.graveyard.corpses[2].death_tick
    /\ probe.after[3].s.graveyard.corpses[2].death_tick = state.tick

\* C16 case: an idle undertaker in a tick with an empty graveyard
C16_EmptyWitness ==
    /\ probe.after # <<>>
    /\ Idle # {}
    /\ probe.after[3].s.graveyard.corpses = <<>>
    /\ ~CompostBlighted(probe.after[3].s)

\* the emergency condition as the queen phase of the latest tick met it
IsEmergency ==
    /\ has_system(probe.after[5].s, "queen_chamber")
    /\ probe.after[5].s.entities = <<>>
    /\ get(probe.after[5].s.resources, "nutrients") >= MIN_RESOURCES_TO_SPAWN
    /\ get(probe.after[5].s.resources, "fungus") >= MIN_RESOURCES_TO_SPAWN

\* the queen phase of the latest tick added one Worker and one Undertaker at
\* origin with the ids of the event it pushed, spent 10 nutrients and 10
\* fungus, recorded the tick, and pushed that one event of the given kind
SpawnedPair(kind) ==
    /\ Len(PhaseEvents(6)) = 1
    /\ PhaseEvents(6)[1].kind = kind
    /\ probe.after[6].s.entities =
           probe.after[5].s.entities
               \o <<new_worker(PhaseEvents(6)[1].worker_id, "origin"),
                    new_undertaker(PhaseEvents(6)[1].undertaker_id, "origin")>>
    /\ probe.after[6].s.resources =
           add(add(probe.after[5].s.resources, "nutrients", -SPAWN_COST_NUTRIENTS),
               "fungus", -SPAWN_COST_FUNGUS)
    /\ get(probe.after[6].s.resources, "nutrients") =
           get(probe.after[5].s.resources, "nutrients") - 100000
    /\ get(probe.after[6].s.resources, "fungus") =
           get(probe.after[5].s.resources, "fungus") - 100000
    /\ probe.after[6].e.last_spawn_tick = state.tick
    /\ [probe.after[6].s EXCEPT !.entities = <<>>, !.resources = EmptyMap] =
           [probe.after[5].s EXCEPT !.entities = <<>>, !.resources = EmptyMap]

\* C17: in a tick whose queen phase finds a queen_chamber system, no entity
\* and at least 15 nutrients and 15 fungus, the phase spawns whatever the
\* last spawn tick is: it adds exactly one Worker and one Undertaker at
\* origin, takes exactly 10 nutrients and 10 fungus, sets the last spawn tick
\* to the current tick and emits exactly one EmergencySpawn event and no
\* AntsSpawned event.
C17_EmergencySpawn ==
    (probe.after # <<>> /\ IsEmergency) =>
        /\ SpawnedPair("EmergencySpawn")
        /\ ~HasKind(events, "AntsSpawned")
        /\ Len(OfKind(events, "EmergencySpawn")) = 1

\* C17 case: the colony's last ant died in this tick, 11 ticks after the
\* last spawn the engine has on record, with exactly 15 nutrients and 15
\* fungus left
C17_Witness ==
    /\ probe.after # <<>>
    /\ IsEmergency
    /\ probe.pre.s.entities # <<>>
    /\ probe.pre.e.last_spawn_tick # 0
    /\ state.tick - probe.pre.e.last_spawn_tick < SPAWN_INTERVAL_TICKS
    /\ get(probe.after[5].s.resources, "nutrients") = MIN_RESOURCES_TO_SPAWN
    /\ get(probe.after[5].s.resources, "fungus") = MIN_RESOURCES_TO_SPAWN
    /\ HasKind(events, "EmergencySpawn")

\* the normal spawn is due in the queen phase of the latest tick: a queen
\* chamber, no emergency, a recorded spawn or baseline tick at least 1800
\* ticks back, and at least 15 nutrients and 15 fungus
SpawnDue ==
    /\ has_system(probe.after[5].s, "queen_chamber")
    /\ ~IsEmergency
    /\ probe.after[5].e.last_spawn_tick # 0
    /\ state.tick - probe.after[5].e.last_spawn_tick >= SPAWN_INTERVAL_TICKS
    /\ get(probe.after[5].s.resources, "nutrients") >= MIN_RESOURCES_TO_SPAWN
    /\ get(probe.after[5].s.resources, "fungus") >= MIN_RESOURCES_TO_SPAWN

\* C18: a tick emits AntsSpawned exactly when the normal spawn is due, and
\* then the queen phase adds one Worker and one Undertaker at origin, spends
\* 10 nutrients and 10 fungus and records the tick; a queen phase that finds
\* no spawn recorded and no emergency only records the tick as the baseline;
\* once the engine has spawned, its last spawn tick is the tick of its
\* latest spawn of either kind, so every AntsSpawned comes at least 1800
\* ticks after the spawn before it, and exactly 1800 ticks after it when the
\* colony is not empty and nutrients and fungus are at least 15 by then.
C18_NormalSpawn ==
    probe.after # <<>> =>
        /\ HasKind(events, "AntsSpawned") <=> SpawnDue
        /\ HasKind(events, "AntsSpawned") =>
               /\ SpawnedPair("AntsSpawned")
               /\ ~HasKind(events, "EmergencySpawn")
               /\ journal.spawns[1] # 0 =>
                      journal.spawns[2] - journal.spawns[1] >= SPAWN_INTERVAL_TICKS
        /\ (has_system(probe.after[5].s, "queen_chamber") /\ ~IsEmergency
               /\ probe.after[5].e.last_spawn_tick = 0) =>
               /\ probe.after[6].e.last_spawn_tick = state.tick
               /\ probe.after[6].s = probe.after[5].s
               /\ PhaseEvents(6) = <<>>
        /\ journal.spawns[2] # 0 => engine.last_spawn_tick = journal.spawns[2]

\* C18 case: an AntsSpawned exactly 1800 ticks after the emergency spawn
\* that came before it in the same run
C18_Witness ==
    /\ HasKind(events, "AntsSpawned")
    /\ journal.spawns[1] # 0
    /\ journal.spawns[2] = journal.spawns[1] + SPAWN_INTERVAL_TICKS
    /\ state.tick = journal.spawns[2]

\* C18 case: the first queen phase of a fresh engine records the baseline
C18_BaselineWitness ==
    /\ probe.after # <<>>
    /\ has_system(probe.after[5].s, "queen_chamber")
    /\ ~IsEmergency
    /\ probe.after[5].e.last_spawn_tick = 0
    /\ engine.last_spawn_tick = state.tick

\* the kinds of event a summon attempt pushes
SummonKinds == {"InfluenceSpent", "VisitorArrived", "SummoningFailed"}

\* C19: in a tick where a receiver system exists and the receiver is silent
\* once maintenance has run, the receiver phase leaves the influence, the
\* entities, the engine (its last summon tick) and every resource but the
\* strange_matter of maintenance as they were, draws nothing and pushes no
\* InfluenceSpent, VisitorArrived or SummoningFailed event; where there is no
\* receiver system the phase changes nothing at all.
C19_SilentReceiver ==
    probe.after # <<>> =>
        /\ (has_system(probe.after[6].s, "receiver")
               /\ probe.after[7].s.meta.receiver_silent) =>
              /\ get(probe.after[7].s.resources, "influence") =
                     get(probe.after[6].s.resources, "influence")
              /\ \A k \in (DOMAIN probe.after[6].s.resources
                               \cup DOMAIN probe.after[7].s.resources)
                             \ {"strange_matter"} :
                     get(probe.after[7].s.resources, k) =
                         get(probe.after[6].s.resources, k)
              /\ probe.after[7].s.entities = probe.after[6].s.entities
              /\ probe.after[7].e = probe.after[6].e
              /\ \A i \in DOMAIN events : events[i].kind \notin SummonKinds
              /\ \A i \in DOMAIN probe.draws :
                     probe.draws[i].what \notin {"summon", "visitor_type", "visitor_id"}
        /\ ~has_system(probe.after[6].s, "receiver") =>
              /\ probe.after[7].s = probe.after[6].s
              /\ probe.after[7].e = probe.after[6].e
              /\ probe.after[7].nev = probe.after[6].nev

\* C19 case: a silent receiver in a tick where the influence covers drain and
\* the summon cost and no summon was ever attempted
C19_Witness ==
    /\ probe.after # <<>>
    /\ has_system(probe.after[6].s, "receiver")
    /\ probe.after[7].s.meta.receiver_silent
    /\ get(probe.after[6].s.resources, "influence") >= SUMMON_COST + LISTENING_DRAIN
    /\ probe.after[6].e.last_summon_tick = 0

\* C19 case: the receiver goes silent in this very tick, for want of
\* strange_matter, with influence to spend
C19_GoesSilentWitness ==
    /\ probe.after # <<>>
    /\ HasKind(events, "ReceiverSilent")
    /\ get(probe.after[6].s.resources, "influence") >= SUMMON_COST + LISTENING_DRAIN

\* C19 case: a tick without a receiver system whose snapshot is marked silent
C19_NoReceiverWitness ==
    /\ probe.after # <<>>
    /\ ~has_system(probe.after[6].s, "receiver")
    /\ probe.after[6].s.meta.receiver_silent
    /\ get(probe.after[6].s.resources, "influence") > LISTENING_DRAIN

\* the influence the receiver phase has after its passive drain
Drained(influence) ==
    IF influence > LISTENING_DRAIN THEN influence - LISTENING_DRAIN ELSE influence

\* the receiver phase of the latest tick was due to attempt a summon
SummonDue ==
    /\ has_system(probe.after[6].s, "receiver")
    /\ ~probe.after[7].s.meta.receiver_silent
    /\ \/ probe.after[6].e.last_summon_tick = 0
       \/ state.tick - probe.after[6].e.last_summon_tick >= SUMMON_COOLDOWN
    /\ Drained(get(probe.after[6].s.resources, "influence")) >= SUMMON_COST

\* C20: over the ticks one engine has driven, an InfluenceSpent event comes at
\* least SUMMON_COOLDOWN ticks after the InfluenceSpent before it, whether that
\* one brought a visitor or failed, and the engine's last summon tick is the
\* tick of the latest one; every tick in which a receiver exists, is not
\* silent after maintenance, the last summon tick is 0 or at least
\* SUMMON_COOLDOWN ticks back and the drained influence is at least
\* SUMMON_COST has exactly one InfluenceSpent event, and no other tick has one.
C20_SummonCooldown ==
    probe.after # <<>> =>
        /\ journal.summons[1] > 0 =>
              journal.summons[2] - journal.summons[1] >= SUMMON_COOLDOWN
        /\ journal.summons[2] > 0 => engine.last_summon_tick = journal.summons[2]
        /\ SummonDue <=> HasKind(events, "InfluenceSpent")
        /\ Cardinality({i \in DOMAIN events : events[i].kind = "InfluenceSpent"}) <= 1
        /\ HasKind(events, "InfluenceSpent") =>
              /\ journal.summons[2] = state.tick
              /\ get(probe.after[7].s.resources, "influence") =
                     Drained(get(probe.after[6].s.resources, "influence")) - SUMMON_COST

\* C20 case: a summon attempt exactly SUMMON_COOLDOWN ticks after an attempt
\* of the same run that failed
C20_Witness ==
    /\ probe.after # <<>>
    /\ HasKind(events, "InfluenceSpent")
    /\ journal.summons[1] > 0
    /\ journal.summons[2] = state.tick
    /\ journal.summons[2] - journal.summons[1] = SUMMON_COOLDOWN
    /\ ~journal.answered[1]

\* C20 case: the same after an attempt that brought a visitor
C20_AnsweredWitness ==
    /\ probe.after # <<>>
    /\ HasKind(events, "InfluenceSpent")
    /\ journal.summons[1] > 0
    /\ journal.summons[2] - journal.summons[1] = SUMMON_COOLDOWN
    /\ journal.answered[1]

\* C20 case: the cooldown holds an attempt back although the influence
\* would pay for it
C20_HeldBackWitness ==
    /\ probe.after # <<>>
    /\ has_system(probe.after[6].s, "receiver")
    /\ ~probe.after[7].s.meta.receiver_silent
    /\ Drained(get(probe.after[6].s.resources, "influence")) >= SUMMON_COST
    /\ state.tick - probe.after[6].e.last_summon_tick = SUMMON_COOLDOWN - 1
    /\ ~HasKind(events, "InfluenceSpent")

\* the events of the receiver phase of the latest tick that belong to a summon
SummonEvents == SelectSeq(PhaseEvents(7), LAMBDA e : e.kind \in SummonKinds)

\* C21: a receiver phase that attempts a summon lowers the influence by the
\* passive drain and by exactly SUMMON_COST and pushes exactly two summon
\* events: InfluenceSpent with amount SUMMON_COST, then VisitorArrived if it
\* records success and SummoningFailed if not.  On success the entity list
\* grows at its end by exactly one visitor with the id and the visitor_type of
\* the event, subtype wanderer, observer or hungry, age 0, on tile receiver;
\* on failure the entity list is unchanged.  A receiver phase without attempt
\* pushes none of the three events.
C21_SummonOutcome ==
    probe.after # <<>> =>
        IF HasKind(PhaseEvents(7), "InfluenceSpent")
        THEN /\ Len(SummonEvents) = 2
             /\ SummonEvents[1].kind = "InfluenceSpent"
             /\ SummonEvents[1].amount = SUMMON_COST
             /\ get(probe.after[7].s.resources, "influence") =
                   Drained(get(probe.after[6].s.resources, "influence")) - SUMMON_COST
             /\ SummonEvents[2].kind =
                   (IF SummonEvents[1].success THEN "VisitorArrived"
                                               ELSE "SummoningFailed")
             /\ IF SummonEvents[1].success
                THEN /\ Len(probe.after[7].s.entities) =
                           Len(probe.after[6].s.entities) + 1
                     /\ SubSeq(probe.after[7].s.entities, 1,
                               Len(probe.after[6].s.entities)) =
                           probe.after[6].s.entities
                     /\ LET visitor == probe.after[7].s.entities[
                                           Len(probe.after[7].s.entities)]
                        IN  /\ visitor.entity_type = "visitor"
                            /\ visitor.subtype = Some(SummonEvents[2].visitor_type)
                            /\ SummonEvents[2].visitor_type \in
                                  {"wanderer", "observer", "hungry"}
                            /\ visitor.id = SummonEvents[2].visitor_id
                            /\ visitor.age = 0
                            /\ visitor.tile = "receiver"
                            /\ visitor \in {new_wanderer(visitor.id),
                                            new_observer(visitor.id),
                                            new_hungry(visitor.id)}
                ELSE probe.after[7].s.entities = probe.after[6].s.entities
        ELSE SummonEvents = <<>>

\* C21 case: a summon that brings a visitor into a colony that has entities
C21_Witness ==
    /\ probe.after # <<>>
    /\ HasKind(PhaseEvents(7), "VisitorArrived")
    /\ probe.after[6].s.entities # <<>>

\* C21 case: a summon that fails
C21_FailedWitness ==
    /\ probe.after # <<>>
    /\ HasKind(PhaseEvents(7), "SummoningFailed")
    /\ probe.after[6].s.entities # <<>>

\* C21 cases: a visitor of each subtype arrives
C21_WandererWitness ==
    /\ probe.after # <<>>
    /\ \E i \in DOMAIN events :
          events[i].kind = "VisitorArrived" /\ events[i].visitor_type = "wanderer"

C21_ObserverWitness ==
    /\ probe.after # <<>>
    /\ \E i \in DOMAIN events :
          events[i].kind = "VisitorArrived" /\ events[i].visitor_type = "observer"

C21_HungryWitness ==
    /\ probe.after # <<>>
    /\ \E i \in DOMAIN events :
          events[i].kind = "VisitorArrived" /\ events[i].visitor_type = "hungry"

\* the tick at which the maintenance goal of snapshot s was last kept (0: no
\* goal or no stamp)
LastMaintained(s) ==
    IF "receiver_maintenance" \in DOMAIN s.meta.goals
       /\ "last_maintained" \in DOMAIN s.meta.goals["receiver_maintenance"]
    THEN s.meta.goals["receiver_maintenance"]["last_maintained"]
    ELSE 0

\* the number of events of the given kind in the latest tick
CountKind(kind) == Cardinality({i \in DOMAIN events : events[i].kind = kind})

\* the receiver phase of the latest tick found a receiver system, the silent
\* flag set and strange_matter for one maintenance
SilentWithFuel ==
    /\ probe.after # <<>>
    /\ has_system(probe.after[6].s, "receiver")
    /\ probe.after[6].s.meta.receiver_silent
    /\ get(probe.after[6].s.resources, "strange_matter") >= MAINTENANCE_COST_STRANGE_MATTER

\* the receiver phase of the latest tick restored the receiver for the given
\* amount of strange_matter
RestoredFor(cost) ==
    /\ ~probe.after[7].s.meta.receiver_silent
    /\ get(probe.after[7].s.resources, "strange_matter") =
          get(probe.after[6].s.resources, "strange_matter") - cost
    /\ LastMaintained(probe.after[7].s) = state.tick
    /\ CountKind("ReceiverRestored") = 1

\* C22: in every tick where a receiver system exists and maintenance finds
\* the receiver silent with at least MAINTENANCE_COST_STRANGE_MATTER
\* strange_matter, that amount is consumed, the silent flag is cleared,
\* last_maintained becomes the tick and exactly one ReceiverRestored event is
\* emitted.
C22_Restoration ==
    SilentWithFuel => RestoredFor(MAINTENANCE_COST_STRANGE_MATTER)

\* C22 as the code has it: with a maintenance goal whose interval has not
\* elapsed the receiver is restored for one MAINTENANCE_COST_STRANGE_MATTER;
\* with the interval elapsed the first check takes one cost for itself, and the
\* receiver is restored, for two costs in all, only if a second one is
\* there, and otherwise stays silent with last_maintained stamped and no event;
\* without a maintenance goal nothing changes.  ReceiverRestored is emitted in
\* no other tick.
C22_RestorationAsBuilt ==
    /\ SilentWithFuel =>
          IF "receiver_maintenance" \notin DOMAIN probe.after[6].s.meta.goals
          THEN /\ probe.after[7].s.meta = probe.after[6].s.meta
               /\ probe.after[7].s.resources = probe.after[6].s.resources
               /\ CountKind("ReceiverRestored") = 0
          ELSE IF state.tick - LastMaintained(probe.after[6].s) <
                     probe.after[6].s.meta.goals["receiver_maintenance"][
                         "maintenance_interval_ticks"]
          THEN RestoredFor(MAINTENANCE_COST_STRANGE_MATTER)
          ELSE IF get(probe.after[6].s.resources, "strange_matter") >=
                     2 * MAINTENANCE_COST_STRANGE_MATTER
          THEN RestoredFor(2 * MAINTENANCE_COST_STRANGE_MATTER)
          ELSE /\ probe.after[7].s.meta.receiver_silent
               /\ get(probe.after[7].s.resources, "strange_matter") =
                     get(probe.after[6].s.resources, "strange_matter")
                        - MAINTENANCE_COST_STRANGE_MATTER
               /\ LastMaintained(probe.after[7].s) = state.tick
               /\ CountKind("ReceiverRestored") = 0
    /\ (probe.after # <<>> /\ ~SilentWithFuel) => CountKind("ReceiverRestored") = 0

\* C22 case: a silent receiver whose maintenance is due takes the only unit
\* of strange_matter, stamps the goal and stays silent
C22_StillSilent ==
    /\ SilentWithFuel
    /\ "receiver_maintenance" \in DOMAIN probe.after[6].s.meta.goals
    /\ probe.after[7].s.meta.receiver_silent
    /\ get(probe.after[7].s.resources, "strange_matter") = 0
    /\ LastMaintained(probe.after[7].s) = state.tick
    /\ CountKind("ReceiverRestored") = 0

\* C22 case: a silent receiver without maintenance goal is left silent
C22_NoGoalWitness ==
    /\ SilentWithFuel
    /\ "receiver_maintenance" \notin DOMAIN probe.after[6].s.meta.goals
    /\ probe.after[7].s.meta.receiver_silent

\* C22 case: restored for one cost
C22_RestoredWitness ==
    /\ SilentWithFuel
    /\ RestoredFor(MAINTENANCE_COST_STRANGE_MATTER)

\* C22 case: restored for two costs
C22_RestoredTwiceWitness ==
    /\ SilentWithFuel
    /\ RestoredFor(2 * MAINTENANCE_COST_STRANGE_MATTER)

\* the receiver phase of the latest tick found a receiver system and a
\* maintenance goal whose interval had elapsed since last_maintained
MaintenanceDue ==
    /\ probe.after # <<>>
    /\ has_system(probe.after[6].s, "receiver")
    /\ "receiver_maintenance" \in DOMAIN probe.after[6].s.meta.goals
    /\ DOMAIN probe.after[6].s.meta.goals["receiver_maintenance"] =
          {"last_maintained", "maintenance_interval_ticks"}
    /\ state.tick - LastMaintained(probe.after[6].s) >=
          probe.after[6].s.meta.goals["receiver_maintenance"]["maintenance_interval_ticks"]

\* the receiver phase of the latest tick found less strange_matter than one
\* maintenance costs
OutOfFuel ==
    get(probe.after[6].s.resources, "strange_matter") < MAINTENANCE_COST_STRANGE_MATTER

C23_StaysSilentWitness ==
    /\ MaintenanceDue
    /\ OutOfFuel
    /\ probe.after[6].s.meta.receiver_silent
    /\ probe.after[7].s.meta.receiver_silent
    /\ probe.after[7].s.meta.receiver_failed_tick # Some(state.tick)

\* C23 case: the tick after a receiver went silent
C23_NextTickWitness ==
    /\ MaintenanceDue
    /\ OutOfFuel
    /\ probe.after[7].s.meta.receiver_failed_tick = Some(state.tick - 1)

\* C23 case: a working receiver pays its due maintenance
C23_PaidWitness ==
    /\ MaintenanceDue
    /\ ~OutOfFuel
    /\ ~probe.after[6].s.meta.receiver_silent
    /\ LastMaintained(probe.after[7].s) = state.tick

\* the boredom counter the boredom phase of the latest tick computes before
\* it compares it with the threshold
BoredomResult ==
    IF probe.after[9].s.queues.actions = <<>> /\ probe.after[9].s.queues.events = <<>>
    THEN probe.after[9].s.meta.boredom + 1
    ELSE Max(probe.after[9].s.meta.boredom - 1, 0)

\* C24: the boredom phase finds the counter as the tick began and the action
\* queue as the actions phase left it; it adds 1 if that queue and the
\* pending-events queue are both empty and otherwise subtracts 1, not below 0;
\* a result of at least BOREDOM_THRESHOLD gives exactly one BoredomHigh event
\* with that level and a counter of 0, a lower result is the new counter and
\* gives no event.  The counter is below BOREDOM_THRESHOLD after every tick,
\* and on a run that began with empty queues and counter 0 a tick has a
\* BoredomHigh event exactly when it is the 60th, 120th, ... of the run.
C24_Boredom ==
    probe.after # <<>> =>
        /\ probe.after[9].s.meta.boredom = probe.pre.s.meta.boredom
        /\ probe.after[9].s.queues.actions = probe.after[1].s.queues.actions
        /\ probe.after[9].s.queues.events = probe.pre.s.queues.events
        /\ IF BoredomResult >= BOREDOM_THRESHOLD
           THEN /\ state.meta.boredom = 0
                /\ CountKind("BoredomHigh") = 1
                /\ events[Len(events)] =
                      [tick |-> state.tick, kind |-> "BoredomHigh",
                       level |-> BoredomResult]
           ELSE /\ state.meta.boredom = BoredomResult
                /\ CountKind("BoredomHigh") = 0
        /\ state.meta.boredom < BOREDOM_THRESHOLD
        /\ (start.state.queues = [actions |-> <<>>, events |-> <<>>]
               /\ start.state.meta.boredom = 0) =>
              /\ state.meta.boredom = calls % BOREDOM_THRESHOLD
              /\ HasKind(events, "BoredomHigh") <=> calls % BOREDOM_THRESHOLD = 0

\* C24 case: the second BoredomHigh of a run that began idle with counter 0
C24_Witness ==
    /\ probe.after # <<>>
    /\ start.state.queues = [actions |-> <<>>, events |-> <<>>]
    /\ start.state.meta.boredom = 0
    /\ calls = 2 * BOREDOM_THRESHOLD
    /\ HasKind(events, "BoredomHigh")

\* C24 case: a busy tick lowers a counter far above the threshold by one,
\* which is reported and reset
C24_BusyHighWitness ==
    /\ probe.after # <<>>
    /\ probe.after[9].s.queues.actions # <<>>
    /\ probe.pre.s.meta.boredom > BOREDOM_THRESHOLD
    /\ HasKind(events, "BoredomHigh")

\* C24 case: a busy tick leaves a counter of 0 at 0
C24_FloorWitness ==
    /\ probe.after # <<>>
    /\ probe.after[9].s.queues.actions # <<>>
    /\ probe.pre.s.meta.boredom = 0
    /\ state.meta.boredom = 0

\* C24 case: the tick in which the last action completes counts as idle
C24_CompletedWitness ==
    /\ probe.after # <<>>
    /\ probe.pre.s.queues.actions # <<>>
    /\ probe.after[1].s.queues.actions = <<>>
    /\ state.meta.boredom = probe.pre.s.meta.boredom + 1

\* the whole seconds between the save of the snapshot and the latest
\* process_offline_progress() call, 0 if the snapshot has no save timestamp
\* or the clock has not moved on
WholeSecondsAway ==
    IF probe.pre.s.last_save_timestamp = None THEN 0
    ELSE IF bench.current_timestamp <= probe.pre.s.last_save_timestamp[1] THEN 0
    ELSE (bench.current_timestamp - probe.pre.s.last_save_timestamp[1]) \div FP

\* the ticks the latest call had to apply
OfflineTicksDue ==
    IF WholeSecondsAway < MIN_OFFLINE_TICKS THEN 0
    ELSE Min(WholeSecondsAway, MAX_OFFLINE_TICKS)

\* the meals entity e of the snapshot after the call has eaten during it,
\* e having been entity was before it
MealsOf(e, was) ==
    (e.hunger - (was.hunger - OfflineTicksDue * (was.hunger_rate \div 2)))
        \div HUNGER_GAIN_FROM_EATING

C25_FloorWitness ==
    /\ calls > 0
    /\ probe.pre.s.last_save_timestamp # None
    /\ bench.current_timestamp - probe.pre.s.last_save_timestamp[1] = 105000
    /\ state.tick = probe.pre.s.tick + 10

\* C25 case: 9.9999 seconds away, nothing applied
C25_TooSoonWitness ==
    /\ calls > 0
    /\ probe.pre.s.last_save_timestamp # None
    /\ bench.current_timestamp - probe.pre.s.last_save_timestamp[1] = 99999
    /\ state = probe.pre.s

\* C25 case: no save timestamp, nothing applied
C25_UnsavedWitness ==
    /\ calls > 0
    /\ probe.pre.s.last_save_timestamp = None
    /\ bench.current_timestamp > 0
    /\ state = probe.pre.s

\* C25 case: an entity has eaten during the call
C25_MealWitness ==
    /\ calls > 0
    /\ OfflineTicksDue > 0
    /\ \E i \in DOMAIN state.entities : \E j \in DOMAIN probe.pre.s.entities :
          /\ probe.pre.s.entities[j].id = state.entities[i].id
          /\ MealsOf(state.entities[i], probe.pre.s.entities[j]) > 0

\* the latest process_offline_progress() call has removed the entity that
\* had the given id
RemovedOffline(id) ==
    /\ IsSome(EntityOf(probe.pre.s.entities, id))
    /\ ~IsSome(EntityOf(state.entities, id))

\* C26: after a process_offline_progress() call that applied ticks no
\* remaining entity has hunger <= 0 or an age that has reached its own
\* max_age, and the graveyard and the returned events are as empty of the
\* removed entities as before.
C26_OfflineDeaths ==
    (calls > 0 /\ OfflineTicksDue > 0) =>
        /\ \A i \in DOMAIN state.entities :
              /\ state.entities[i].hunger > 0
              /\ state.entities[i].age < state.entities[i].max_age
        /\ state.graveyard = probe.pre.s.graveyard
        /\ events = <<>>

\* C26 as the code has it: the age limit of the offline loop is
\* DEFAULT_MAX_AGE for every entity, whatever its max_age: no remaining
\* entity has hunger <= 0 or age >= DEFAULT_MAX_AGE, every entity of the
\* snapshot whose age has reached DEFAULT_MAX_AGE by the end of the call is
\* gone, every entity without food in stock whose hunger runs out during the
\* call is gone, and no corpse or event is made.
C26_OfflineDeathsAsBuilt ==
    (calls > 0 /\ OfflineTicksDue > 0) =>
        /\ \A i \in DOMAIN state.entities :
              /\ state.entities[i].hunger > 0
              /\ state.entities[i].age < DEFAULT_MAX_AGE
        /\ \A j \in DOMAIN probe.pre.s.entities :
              LET was == probe.pre.s.entities[j]
              IN  /\ was.age + OfflineTicksDue >= DEFAULT_MAX_AGE =>
                        RemovedOffline(was.id)
                  /\ (was.hunger - OfflineTicksDue * (was.hunger_rate \div 2) <= 0
                         /\ (was.food = None
                                \/ get(probe.pre.s.resources, was.food[1]) < ONE_FOOD)
                         /\ (was.food # None =>
                                get(state.resources, was.food[1]) < ONE_FOOD)) =>
                        RemovedOffline(was.id)
        /\ state.graveyard = probe.pre.s.graveyard
        /\ events = <<>>

\* C26 case: a visitor is still there after the call although its age has
\* passed its own max_age
C26_Outstayed ==
    /\ calls > 0
    /\ OfflineTicksDue > 0
    /\ \E i \in DOMAIN state.entities :
          /\ state.entities[i].entity_type = "visitor"
          /\ state.entities[i].age >= state.entities[i].max_age
          /\ state.entities[i].age < DEFAULT_MAX_AGE

\* C26 case: an ant that reached DEFAULT_MAX_AGE during the call is gone
C26_OldAgeWitness ==
    /\ calls > 0
    /\ OfflineTicksDue > 0
    /\ \E j \in DOMAIN probe.pre.s.entities :
          /\ probe.pre.s.entities[j].entity_type = "ant"
          /\ probe.pre.s.entities[j].age < DEFAULT_MAX_AGE
          /\ probe.pre.s.entities[j].age + OfflineTicksDue >= DEFAULT_MAX_AGE
          /\ RemovedOffline(probe.pre.s.entities[j].id)

\* C26 case: an entity that starved during the call is gone
C26_StarvedWitness ==
    /\ calls > 0
    /\ OfflineTicksDue > 0
    /\ \E j \in DOMAIN probe.pre.s.entities :
          /\ probe.pre.s.entities[j].age + OfflineTicksDue < DEFAULT_MAX_AGE
          /\ probe.pre.s.entities[j].hunger > 0
          /\ RemovedOffline(probe.pre.s.entities[j].id)

\* C27: a process_offline_progress() call returns no event and leaves the
\* graveyard, the map, the systems, the queues, the meta fields, the save
\* timestamp and the engine as they were; only the tick, the resources and
\* the entity list may differ.
C27_OfflineFrame ==
    calls > 0 =>
        /\ events = <<>>
        /\ state.graveyard = probe.pre.s.graveyard
        /\ state.map = probe.pre.s.map
        /\ state.systems = probe.pre.s.systems
        /\ state.queues = probe.pre.s.queues
        /\ state.meta = probe.pre.s.meta
        /\ state.last_save_timestamp = probe.pre.s.last_save_timestamp
        /\ engine = probe.pre.e
        /\ state = [probe.pre.s EXCEPT !.tick = state.tick,
                                       !.resources = state.resources,
                                       !.entities = state.entities]

\* C27 case: MAX_OFFLINE_TICKS ticks applied to a colony with a blighted
\* tile, a disabled system with a corpse boost, a queued action, a silent
\* receiver owing maintenance and an engine that has spawned and summoned;
\* entities died and resources moved
C27_Witness ==
    /\ calls > 0
    /\ OfflineTicksDue = MAX_OFFLINE_TICKS
    /\ "compost" \in DOMAIN state.map.tiles
    /\ "compost_heap" \in DOMAIN state.systems
    /\ is_blighted(state.map.tiles["compost"])
    /\ state.systems["compost_heap"].corpse_boosts # <<>>
    /\ state.queues.actions # <<>>
    /\ state.meta.receiver_silent
    /\ engine.last_spawn_tick > 0
    /\ engine.last_summon_tick > 0
    /\ Len(state.entities) < Len(probe.pre.s.entities)
    /\ state.resources # probe.pre.s.resources

\* what the effects of the given actions add to resource k, all told
RECURSIVE EffectOn(_, _)
EffectOn(actions, k) ==
    IF actions = <<>> THEN 0
    ELSE (IF IsSome(Head(actions).effects)
             /\ IsSome(Head(actions).effects[1].resources)
             /\ k \in DOMAIN Head(actions).effects[1].resources[1]
          THEN Head(actions).effects[1].resources[1][k] ELSE 0)
         + EffectOn(Tail(actions), k)

\* the actions of the queue before the latest tick that were due in it
DueActions == SelectSeq(probe.pre.s.queues.actions, LAMBDA a : a.ticks_remaining <= 1)

\* the other actions of that queue
WaitingActions == SelectSeq(probe.pre.s.queues.actions, LAMBDA a : a.ticks_remaining > 1)

\* the ActionComplete events of the latest tick
CompletionEvents == SelectSeq(events, LAMBDA e : e.kind = "ActionComplete")

\* C28: the actions phase completes exactly the actions with at most 1 tick
\* remaining: they leave the queue, one ActionComplete event with the id and
\* type of each is emitted, in queue order, and the effects of them all are
\* added to the resources once; the other actions stay in their order, each
\* with exactly 1 tick less.  So an action that the snapshot of the run holds
\* with ticks_remaining n completes in the n-th tick of the run, or in the
\* first if n is 0, is in the queue with n less the ticks run until then, and
\* is in no queue and no event afterwards.
C28_ActionQueue ==
    probe.after # <<>> =>
        /\ Len(CompletionEvents) = Len(DueActions)
        /\ \A i \in DOMAIN DueActions :
              CompletionEvents[i] =
                  [tick |-> state.tick, kind |-> "ActionComplete",
                   action_id |-> DueActions[i].id,
                   action_type |-> DueActions[i].action_type]
        /\ Len(probe.after[1].s.queues.actions) = Len(WaitingActions)
        /\ \A i \in DOMAIN WaitingActions :
              probe.after[1].s.queues.actions[i] =
                  [WaitingActions[i] EXCEPT !.ticks_remaining = @ - 1]
        /\ state.queues.actions = probe.after[1].s.queues.actions
        /\ \A k \in DOMAIN probe.after[1].s.resources \cup DOMAIN probe.pre.s.resources :
              get(probe.after[1].s.resources, k) =
                  get(probe.pre.s.resources, k) + EffectOn(DueActions, k)
        /\ \A i \in DOMAIN start.state.queues.actions :
              LET queued == start.state.queues.actions[i]
              IN  /\ (\E j \in DOMAIN events :
                         /\ events[j].kind = "ActionComplete"
                         /\ events[j].action_id = queued.id)
                        <=> calls = Max(queued.ticks_remaining, 1)
                  /\ (\E j \in DOMAIN state.queues.actions :
                         state.queues.actions[j].id = queued.id)
                        <=> calls < Max(queued.ticks_remaining, 1)
                  /\ \A j \in DOMAIN state.queues.actions :
                        state.queues.actions[j].id = queued.id =>
                            state.queues.actions[j] =
                                [queued EXCEPT !.ticks_remaining = @ - calls]

\* C28 case: the action queued with 3 ticks remaining completes in the third
\* tick, the last of the queue
C28_Witness ==
    /\ probe.after # <<>>
    /\ calls = 3
    /\ \E i \in DOMAIN start.state.queues.actions :
          /\ start.state.queues.actions[i].ticks_remaining = 3
          /\ \E j \in DOMAIN events :
                /\ events[j].kind = "ActionComplete"
                /\ events[j].action_id = start.state.queues.actions[i].id
    /\ state.queues.actions = <<>>

\* C28 case: two actions complete in one tick, one of them queued with 0 ticks
\* remaining, with effects on the resources, while two others wait
C28_TogetherWitness ==
    /\ probe.after # <<>>
    /\ Len(DueActions) = 2
    /\ \E i \in DOMAIN DueActions : DueActions[i].ticks_remaining = 0
    /\ \E k \in DOMAIN probe.after[1].s.resources : EffectOn(DueActions, k) # 0
    /\ Len(WaitingActions) = 2

\* C28 case: an action with effects that lower a resource completes
C28_SpendWitness ==
    /\ probe.after # <<>>
    /\ \E k \in DOMAIN probe.after[1].s.resources : EffectOn(DueActions, k) < 0

\* the ages of the ants of the snapshot the run started on
AntAges ==
    {start.state.entities[i].age :
        i \in {j \in DOMAIN start.state.entities :
                  start.state.entities[j].entity_type = "ant"}}

\* the tick the youngest of those ants was born in
YoungestBorn ==
    start.state.tick - (CHOOSE a \in AntAges : \A b \in AntAges : a <= b)

\* the engine has spawned in no tick before the latest one
NoSpawnBefore ==
    IF HasKind(events, "AntsSpawned") \/ HasKind(events, "EmergencySpawn")
    THEN journal.spawns[1] = 0 ELSE journal.spawns[2] = 0

\* the queen phase of the latest tick had a queen chamber, a colony that is
\* not empty and the resources of a spawn
CouldSpawn ==
    /\ has_system(probe.after[5].s, "queen_chamber")
    /\ probe.after[5].s.entities # <<>>
    /\ get(probe.after[5].s.resources, "nutrients") >= MIN_RESOURCES_TO_SPAWN
    /\ get(probe.after[5].s.resources, "fungus") >= MIN_RESOURCES_TO_SPAWN

\* C29: an engine that init_from_state was called on with a snapshot that has
\* ants differs from the engine before the call in its last spawn tick only,
\* which is the snapshot's tick less the least age among its ants, or 0 if
\* that is negative, and until its first spawn it spawns, where a queen
\* chamber, a living colony and the resources allow, in exactly the ticks that
\* are 1800 or more later than the tick the youngest ant was born in; with a
\* snapshot that has no entities the engine is as before the call.
C29_Resume ==
    start.resumed # None =>
        /\ start.state.entities = <<>> => start.engine = start.resumed[1]
        /\ AntAges # {} =>
              /\ start.engine = [start.resumed[1] EXCEPT
                                    !.last_spawn_tick = Max(YoungestBorn, 0)]
              /\ (probe.after # <<>> /\ NoSpawnBefore /\ CouldSpawn) =>
                     (HasKind(events, "AntsSpawned")
                         <=> state.tick - YoungestBorn >= SPAWN_INTERVAL_TICKS)

\* C29, as built: the last spawn tick is set as C29 says, and to the
\* snapshot's tick when the snapshot has entities but no ant; the spawn comes
\* in the ticks that C29 names only when the last spawn tick so set is not 0,
\* and when it is 0, the youngest ant being as old as the snapshot, the first
\* tick after the call spawns nothing and records its own tick instead.
C29_ResumeAsBuilt ==
    start.resumed # None =>
        /\ start.state.entities = <<>> => start.engine = start.resumed[1]
        /\ AntAges # {} =>
              /\ start.engine = [start.resumed[1] EXCEPT
                                    !.last_spawn_tick = Max(YoungestBorn, 0)]
              /\ (probe.after # <<>> /\ NoSpawnBefore /\ CouldSpawn
                     /\ start.engine.last_spawn_tick # 0) =>
                     (HasKind(events, "AntsSpawned")
                         <=> state.tick - YoungestBorn >= SPAWN_INTERVAL_TICKS)
              /\ (calls = 1 /\ CouldSpawn /\ start.engine.last_spawn_tick = 0) =>
                     /\ ~HasKind(events, "AntsSpawned")
                     /\ engine.last_spawn_tick = state.tick
        /\ (start.state.entities # <<>> /\ AntAges = {}) =>
              start.engine = [start.resumed[1] EXCEPT
                                 !.last_spawn_tick = start.state.tick]

\* C29 case: the youngest ant is as old as the snapshot, so the spawn is due
\* by its age in the first tick after the call, and the tick spawns nothing
C29_FounderWitness ==
    /\ start.resumed # None
    /\ AntAges # {}
    /\ YoungestBorn = 0
    /\ calls = 1
    /\ CouldSpawn
    /\ state.tick - YoungestBorn >= SPAWN_INTERVAL_TICKS
    /\ ~HasKind(events, "AntsSpawned")
    /\ engine.last_spawn_tick = state.tick

\* C29 case: the second tick after the call spawns, exactly 1800 ticks after
\* the youngest ant was born, which is neither the oldest entity nor the
\* youngest
C29_OnTimeWitness ==
    /\ start.resumed # None
    /\ AntAges # {}
    /\ calls = 2
    /\ HasKind(events, "AntsSpawned")
    /\ state.tick - YoungestBorn = SPAWN_INTERVAL_TICKS
    /\ \E i \in DOMAIN start.state.entities :
          start.state.entities[i].age < start.state.tick - YoungestBorn
    /\ \E i \in DOMAIN start.state.entities :
          start.state.entities[i].age > start.state.tick - YoungestBorn

\* C29 case: the call on a snapshot with no entities
C29_EmptyWitness ==
    /\ start.resumed # None
    /\ start.state.entities = <<>>
    /\ start.state.tick > 0
    /\ start.engine.last_spawn_tick = 0

\* C29 case: the call on a snapshot that holds a visitor and no ant
C29_VisitorWitness ==
    /\ start.resumed # None
    /\ start.state.entities # <<>>
    /\ AntAges = {}
    /\ start.engine.last_spawn_tick = start.state.tick

-----------------------------------------------------------------------------
(* Snapshots as JSON (types/*.rs, serde derive).  A JSON text is modelled  *)
(* by its tree, [t: the kind of value, v: its content]; a number keeps the *)
(* kind of its literal: "int" without fraction or exponent, "float" with   *)
(* one, its value in units of 1/FP.  A deserialized struct is a function   *)
(* from its field names, a Result is None for Err and Some(v) for Ok(v).   *)

JNull == [t |-> "null"]
JBool(b) == [t |-> "bool", v |-> b]
JInt(n) == [t |-> "int", v |-> n]
JFloat(x) == [t |-> "float", v |-> x]
JStr(s) == [t |-> "str", v |-> s]
JArr(items) == [t |-> "arr", v |-> items]
JObj(members) == [t |-> "obj", v |-> members]

\* the Rust types of the fields
TU64 == [k |-> "u64"]
TI32 == [k |-> "i32"]
TF64 == [k |-> "f64"]
TBool == [k |-> "bool"]
TString == [k |-> "string"]
TValue == [k |-> "value"]
TPair == [k |-> "pair"]
TEnum(variants) == [k |-> "enum", of |-> variants]
TOption(T) == [k |-> "option", of |-> T]
TVec(T) == [k |-> "vec", of |-> T]
THashMap(T) == [k |-> "map", of |-> T]
TStruct(name) == [k |-> "struct", name |-> name]

\* a field without serde attributes; `default`: the value of #[serde(default)]
\* if any; skip: "none" for skip_serializing_if = "Option::is_none", "empty"
\* for "Vec::is_empty"
Field(name, type) ==
    [name |-> name, key |-> name, type |-> type, default |-> None, skip |-> "never"]

Renamed(name, key, type) == [Field(name, type) EXCEPT !.key = key]

Defaulted(name, type, default) == [Field(name, type) EXCEPT !.default = Some(default)]

Optional(name, type) == [Field(name, TOption(type)) EXCEPT !.skip = "none"]

EntityType == {"ant", "visitor"}
AntRole == {"worker", "undertaker"}
VisitorType == {"wanderer", "observer", "hungry"}
DeathCause == {"starvation", "old_age", "blight"}
SystemType == {"generator", "converter", "spawner", "crafting", "antenna"}
TileType == {"empty", "compost", "extraction", "production", "resource", "special",
             "aesthetic", "antenna"}

\* Resources: its one field is flattened, so it is read and written as the map
TResources == THashMap(TF64)

EntityFields ==
    <<Field("id", TString),
      Renamed("entity_type", "type", TEnum(EntityType)),
      Optional("role", TEnum(AntRole)),
      Optional("subtype", TEnum(VisitorType)),
      Optional("name", TString),
      Field("tile", TString),
      Defaulted("age", TU64, 0),
      Defaulted("hunger", TF64, 100 * FP),
      Defaulted("hunger_rate", TF64, FP \div 10),
      Defaulted("max_age", TU64, DEFAULT_MAX_AGE),
      Optional("food", TString),
      Optional("processing_corpse", TBool),
      Optional("processing_ticks", TU64),
      Optional("from_outside", TBool),
      Optional("description", TString),
      Optional("gift_on_death", THashMap(TF64)),
      Optional("generates", THashMap(TF64)),
      Optional("transforms", TBool)>>

CorpseBoostFields == <<Field("expires_at_tick", TU64), Field("bonus", TF64)>>

SystemFields ==
    <<Field("name", TString),
      Renamed("system_type", "type", TEnum(SystemType)),
      Optional("generates", THashMap(TF64)),
      Optional("consumes", THashMap(TF64)),
      Optional("description", TString),
      [Defaulted("corpse_boosts", TVec(TStruct("CorpseBoost")), <<>>)
          EXCEPT !.skip = "empty"],
      Optional("original_generates", THashMap(TF64)),
      Optional("original_consumes", THashMap(TF64))>>

TileFields ==
    <<Field("name", TString),
      Renamed("tile_type", "type", TEnum(TileType)),
      Field("x", TI32),
      Field("y", TI32),
      Optional("contamination", TF64),
      Optional("blighted", TBool),
      Optional("blight_ticks_remaining", TU64),
      Optional("resource", TString),
      Optional("description", TString)>>

GameMapFields ==
    <<Field("tiles", THashMap(TStruct("Tile"))), Field("connections", TVec(TPair))>>

ActionFields ==
    <<Field("id", TString),
      Renamed("action_type", "type", TString),
      Field("ticks_remaining", TU64),
      Optional("effects", TStruct("ActionEffects"))>>

ActionEffectsFields == <<Optional("resources", THashMap(TF64))>>

QueuesFields ==
    <<Defaulted("actions", TVec(TStruct("Action")), <<>>),
      Defaulted("events", TVec(TValue), <<>>)>>

CorpseFields ==
    <<Field("entity_id", TString),
      Field("entity_type", TString),
      Field("death_tick", TU64),
      Field("cause", TEnum(DeathCause)),
      Field("tile", TString)>>

GraveyardFields ==
    <<Field("corpses", TVec(TStruct("Corpse"))), Field("total_processed", TU64)>>

\* Graveyard::default
Graveyard_default == ("corpses" :> <<>>) @@ ("total_processed" :> 0)

MetaFields ==
    <<Defaulted("boredom", TU64, 0),
      Defaulted("recent_decisions", TVec(TValue), <<>>),
      Defaulted("rejected_ideas", TVec(TString), <<>>),
      Defaulted("fired_cards", TVec(TString), <<>>),
      Optional("estate", TValue),
      Defaulted("decor", TVec(TValue), <<>>),
      Defaulted("jewelry", TVec(TValue), <<>>),
      Defaulted("goals", THashMap(TValue), EmptyMap),
      Defaulted("reflections", TVec(TValue), <<>>),
      Defaulted("sanity", TF64, 100 * FP),
      Defaulted("receiver_silent", TBool, FALSE),
      Optional("receiver_failed_tick", TU64)>>

GameStateFields ==
    <<Field("tick", TU64),
      Field("resources", TResources),
      Field("systems", THashMap(TStruct("System"))),
      Field("entities", TVec(TStruct("Entity"))),
      Field("map", TStruct("GameMap")),
      Field("queues", TStruct("Queues")),
      Field("meta", TStruct("Meta")),
      Defaulted("graveyard", TStruct("Graveyard"), Graveyard_default),
      Optional("last_save_timestamp", TF64)>>

\* the fields of the struct of the given name, in the order of declaration
Fields(name) ==
    CASE name = "GameState" -> GameStateFields
      [] name = "Meta" -> MetaFields
      [] name = "Graveyard" -> GraveyardFields
      [] name = "Corpse" -> CorpseFields
      [] name = "Queues" -> QueuesFields
      [] name = "Action" -> ActionFields
      [] name = "ActionEffects" -> ActionEffectsFields
      [] name = "GameMap" -> GameMapFields
      [] name = "Tile" -> TileFields
      [] name = "System" -> SystemFields
      [] name = "CorpseBoost" -> CorpseBoostFields
      [] name = "Entity" -> EntityFields

\* the field of the list with the given Rust name
FieldNamed(fields, name) ==
    fields[CHOOSE i \in DOMAIN fields : fields[i].name = name]

\* the field of the list with the given JSON key
FieldKeyed(fields, key) ==
    fields[CHOOSE i \in DOMAIN fields : fields[i].key = key]

\* what #[derive(Deserialize)] makes of a field whose key the object lacks
MissingField(f) ==
    IF f.default # None THEN f.default
    ELSE IF f.type.k = "option" THEN Some(None)
    ELSE None

\* serde's Deserialize for a value of type T from the JSON value j
RECURSIVE Deserialize(_, _)
Deserialize(T, j) ==
    CASE T.k = "u64" -> IF j.t = "int" /\ j.v >= 0 THEN Some(j.v) ELSE None
      [] T.k = "i32" -> IF j.t = "int" THEN Some(j.v) ELSE None
      [] T.k = "f64" -> IF j.t = "int" THEN Some(j.v * FP)
                        ELSE IF j.t = "float" THEN Some(j.v) ELSE None
      [] T.k = "bool" -> IF j.t = "bool" THEN Some(j.v) ELSE None
      [] T.k = "string" -> IF j.t = "str" THEN Some(j.v) ELSE None
      [] T.k = "enum" -> IF j.t = "str" /\ j.v \in T.of THEN Some(j.v) ELSE None
      [] T.k = "value" -> Some(j)
      [] T.k = "pair" ->
            IF j.t = "arr" /\ Len(j.v) = 2 /\ j.v[1].t = "str" /\ j.v[2].t = "str"
            THEN Some(<<j.v[1].v, j.v[2].v>>) ELSE None
      [] T.k = "option" ->
            IF j.t = "null" THEN Some(None)
            ELSE LET inner == Deserialize(T.of, j)
                 IN  IF inner = None THEN None ELSE Some(inner)
      [] T.k = "vec" ->
            IF j.t # "arr" THEN None
            ELSE LET items == [i \in DOMAIN j.v |-> Deserialize(T.of, j.v[i])]
                 IN  IF \E i \in DOMAIN items : items[i] = None THEN None
                     ELSE Some([i \in DOMAIN items |-> items[i][1]])
      [] T.k = "map" ->
            IF j.t # "obj" THEN None
            ELSE LET items == [key \in DOMAIN j.v |-> Deserialize(T.of, j.v[key])]
                 IN  IF \E key \in DOMAIN items : items[key] = None THEN None
                     ELSE Some([key \in DOMAIN items |-> items[key][1]])
      [] T.k = "struct" ->
            IF j.t # "obj" THEN None
            ELSE LET fields == Fields(T.name)
                     names == {fields[i].name : i \in DOMAIN fields}
                     items == [name \in names |->
                                  LET f == FieldNamed(fields, name)
                                  IN  IF f.key \in DOMAIN j.v
                                      THEN Deserialize(f.type, j.v[f.key])
                                      ELSE MissingField(f)]
                 IN  IF \E name \in names : items[name] = None THEN None
                     ELSE Some([name \in names |-> items[name][1]])

SkipNothing(f, value) == FALSE

\* whether #[derive(Serialize)] leaves the field with this value out
SkipSerializing(f, value) ==
    \/ f.skip = "none" /\ value = None
    \/ f.skip = "empty" /\ value = <<>>

\* serde's Serialize for the value of type T, as serde_json writes it
RECURSIVE Serialize(_, _)
Serialize(T, value) ==
    CASE T.k = "u64" -> JInt(value)
      [] T.k = "i32" -> JInt(value)
      [] T.k = "f64" -> JFloat(value)
      [] T.k = "bool" -> JBool(value)
      [] T.k = "string" -> JStr(value)
      [] T.k = "enum" -> JStr(value)
      [] T.k = "value" -> value
      [] T.k = "pair" -> JArr(<<JStr(value[1]), JStr(value[2])>>)
      [] T.k = "option" -> IF value = None THEN JNull ELSE Serialize(T.of, value[1])
      [] T.k = "vec" -> JArr([i \in DOMAIN value |-> Serialize(T.of, value[i])])
      [] T.k = "map" -> JObj([key \in DOMAIN value |-> Serialize(T.of, value[key])])
      [] T.k = "struct" ->
            LET fields == Fields(T.name)
                keys == {fields[i].key : i \in {n \in DOMAIN fields :
                            ~SkipSerializing(fields[n], value[fields[n].name])}}
            IN  JObj([key \in keys |->
                         Serialize(FieldKeyed(fields, key).type,
                                   value[FieldKeyed(fields, key).name])])

\* GameState::from_json
from_json(json) == Deserialize(TStruct("GameState"), json)

\* GameState::to_json
to_json(s) == Serialize(TStruct("GameState"), s)

\* an object member that is there or not
Given(there, key, value) == IF there THEN key :> value ELSE EmptyMap

\* an optional member: absent, null or present
Opt(optional, key, value) ==
    CASE optional = "absent" -> EmptyMap
      [] optional = "null" -> key :> JNull
      [] optional = "present" -> key :> value

\* a whole number written as an integer or with a fraction
JNum(literal, n) == IF literal = "int" THEN JInt(n) ELSE JFloat(n * FP)

\* SAMPLE_STATE of tests/compatibility.rs, its numbers cut to multiples of 1/FP
SampleJson ==
    JObj(("tick" :> JInt(104100))
      @@ ("resources" :>
             JObj([dirt |-> JFloat(15898550), nutrients |-> JFloat(8162700),
                   fungus |-> JFloat(1017816), crystals |-> JFloat(220230),
                   ore |-> JFloat(553260), influence |-> JFloat(19935),
                   insight |-> JFloat(36000)]))
      @@ ("systems" :>
             JObj([compost_heap |->
                       JObj(("name" :> JStr("Compost Heap"))
                         @@ ("type" :> JStr("generator"))
                         @@ ("generates" :> JObj([nutrients |-> JFloat(100)]))
                         @@ ("consumes" :> JObj([dirt |-> JFloat(50)]))
                         @@ ("description" :>
                                JStr("Dirt slowly breaks down into nutrients"))
                         @@ ("corpse_boosts" :> JArr(<<>>))),
                   dig_site |->
                       JObj(("name" :> JStr("Dig Site"))
                         @@ ("type" :> JStr("generator"))
                         @@ ("generates" :> JObj([dirt |-> JFloat(200)]))
                         @@ ("description" :> JStr("Ants slowly dig up dirt")))]))
      @@ ("entities" :>
             JArr(<<JObj(("id" :> JStr("81a2527a")) @@ ("type" :> JStr("ant"))
                      @@ ("role" :> JStr("worker")) @@ ("tile" :> JStr("origin"))
                      @@ ("age" :> JInt(0)) @@ ("hunger" :> JInt(100))
                      @@ ("hunger_rate" :> JFloat(1000)) @@ ("max_age" :> JInt(7200))
                      @@ ("food" :> JStr("fungus"))),
                    JObj(("id" :> JStr("539a5906")) @@ ("type" :> JStr("ant"))
                      @@ ("role" :> JStr("undertaker")) @@ ("tile" :> JStr("origin"))
                      @@ ("age" :> JInt(0)) @@ ("hunger" :> JInt(100))
                      @@ ("hunger_rate" :> JFloat(1500)) @@ ("max_age" :> JInt(7200))
                      @@ ("food" :> JStr("fungus"))
                      @@ ("processing_corpse" :> JBool(FALSE))
                      @@ ("processing_ticks" :> JInt(0)))>>))
      @@ ("map" :>
             JObj(("tiles" :>
                      JObj([origin |->
                                JObj(("name" :> JStr("The Starting Dirt"))
                                  @@ ("type" :> JStr("empty"))
                                  @@ ("x" :> JInt(0)) @@ ("y" :> JInt(0))),
                            compost |->
                                JObj(("name" :> JStr("The Heap"))
                                  @@ ("type" :> JStr("compost"))
                                  @@ ("x" :> JInt(1)) @@ ("y" :> JInt(0))
                                  @@ ("contamination" :> JFloat(100))
                                  @@ ("blighted" :> JBool(FALSE))
                                  @@ ("blight_ticks_remaining" :> JInt(0)))]))
               @@ ("connections" :> JArr(<<JArr(<<JStr("origin"), JStr("compost")>>)>>))))
      @@ ("queues" :> JObj([actions |-> JArr(<<>>), events |-> JArr(<<>>)]))
      @@ ("meta" :>
             JObj(("boredom" :> JInt(28))
               @@ ("recent_decisions" :> JArr(<<>>))
               @@ ("fired_cards" :>
                      JArr(<<JStr("what_do_nutrients_do"), JStr("the_second_grind")>>))
               @@ ("sanity" :> JFloat(801000))
               @@ ("receiver_silent" :> JBool(TRUE))
               @@ ("receiver_failed_tick" :> JInt(104100))))
      @@ ("graveyard" :> JObj([corpses |-> JArr(<<>>), total_processed |-> JInt(17)]))
      @@ ("last_save_timestamp" :> JFloat(1766544426)))

\* a snapshot as a host may have written it: its optional members absent,
\* null or present, its whole numbers written as integers or with a fraction,
\* the members that have defaults there or not, and members that no struct
\* knows there or not
SnapshotJson(optional, literal, defaults, legacy) ==
    JObj(("tick" :> JInt(7000))
      @@ ("resources" :> JObj([fungus |-> JNum(literal, 12), dirt |-> JFloat(-5)]))
      @@ ("systems" :>
             JObj([compost_heap |->
                       JObj(("name" :> JStr("Compost Heap"))
                         @@ ("type" :> JStr("converter"))
                         @@ Opt(optional, "generates", JObj(EmptyMap))
                         @@ Opt(optional, "consumes", JObj([dirt |-> JFloat(50)]))
                         @@ Opt(optional, "description", JStr(""))
                         @@ Opt(optional, "original_generates",
                                JObj([nutrients |-> JNum(literal, 1)]))
                         @@ Opt(optional, "original_consumes", JObj(EmptyMap))
                         @@ Given(defaults, "corpse_boosts",
                                  JArr(<<JObj([expires_at_tick |-> JInt(7005),
                                               bonus |-> JNum(literal, 2)])>>))
                         @@ Given(legacy, "level", JInt(3)))]))
      @@ ("entities" :>
             JArr(<<JObj(("id" :> JStr("81a2527a"))
                      @@ ("type" :> JStr("visitor"))
                      @@ ("tile" :> JStr("receiver"))
                      @@ Opt(optional, "role", JStr("undertaker"))
                      @@ Opt(optional, "subtype", JStr("observer"))
                      @@ Opt(optional, "name", JStr("An Observer"))
                      @@ Opt(optional, "food", JStr("nutrients"))
                      @@ Opt(optional, "processing_corpse", JBool(FALSE))
                      @@ Opt(optional, "processing_ticks", JInt(0))
                      @@ Opt(optional, "from_outside", JBool(TRUE))
                      @@ Opt(optional, "description", JStr("It watches."))
                      @@ Opt(optional, "gift_on_death",
                             JObj([strange_matter |-> JNum(literal, 1)]))
                      @@ Opt(optional, "generates", JObj([insight |-> JFloat(10)]))
                      @@ Opt(optional, "transforms", JBool(TRUE))
                      @@ Given(defaults, "age", JInt(12))
                      @@ Given(defaults, "hunger", JNum(literal, 80))
                      @@ Given(defaults, "hunger_rate", JFloat(500))
                      @@ Given(defaults, "max_age", JInt(3600))
                      @@ Given(legacy, "mood", JNull))>>))
      @@ ("map" :>
             JObj(("tiles" :>
                      JObj([compost |->
                                JObj(("name" :> JStr("The Heap"))
                                  @@ ("type" :> JStr("compost"))
                                  @@ ("x" :> JInt(1)) @@ ("y" :> JInt(-1))
                                  @@ Opt(optional, "contamination", JNum(literal, 0))
                                  @@ Opt(optional, "blighted", JBool(TRUE))
                                  @@ Opt(optional, "blight_ticks_remaining", JInt(5))
                                  @@ Opt(optional, "resource", JStr("dirt"))
                                  @@ Opt(optional, "description", JStr("It smells.")))]))
               @@ ("connections" :> JArr(<<>>))))
      @@ ("queues" :>
             JObj(Given(defaults, "actions",
                        JArr(<<JObj(("id" :> JStr("a1")) @@ ("type" :> JStr("dig"))
                                 @@ ("ticks_remaining" :> JInt(5))
                                 @@ Opt(optional, "effects",
                                        JObj(Opt(optional, "resources",
                                                 JObj([dirt |-> JNum(literal, 1)]))))),
                               JObj(("id" :> JStr("a2")) @@ ("type" :> JStr("rest"))
                                 @@ ("ticks_remaining" :> JInt(0))
                                 @@ ("effects" :> JObj(EmptyMap)))>>))
               @@ Given(defaults, "events",
                        JArr(<<JObj([card |-> JStr("omen"), weight |-> JInt(2),
                                     seen |-> JNull])>>))))
      @@ ("meta" :>
             JObj(Given(defaults, "boredom", JInt(28))
               @@ Given(defaults, "recent_decisions", JArr(<<JStr("dig"), JNull>>))
               @@ Given(defaults, "rejected_ideas", JArr(<<JStr("moat")>>))
               @@ Given(defaults, "fired_cards", JArr(<<JStr("the_second_grind")>>))
               @@ Opt(optional, "estate", JObj([rooms |-> JInt(2)]))
               @@ Given(defaults, "decor", JArr(<<JFloat(15000)>>))
               @@ Given(defaults, "jewelry", JArr(<<>>))
               @@ Given(defaults, "goals",
                        JObj([receiver_maintenance |->
                                 JObj([last_maintained |-> JNum(literal, 3400),
                                       maintenance_interval_ticks |-> JInt(3600),
                                       note |-> JNull])]))
               @@ Given(defaults, "reflections", JArr(<<JBool(TRUE)>>))
               @@ Given(defaults, "sanity", JNum(literal, 80))
               @@ Given(defaults, "receiver_silent", JBool(TRUE))
               @@ Opt(optional, "receiver_failed_tick", JInt(6990))
               @@ Given(legacy, "mood", JStr("calm"))))
      @@ Given(defaults, "graveyard",
               JObj([corpses |->
                         JArr(<<JObj([entity_id |-> JStr("c1"), entity_type |-> JStr("ant"),
                                      death_tick |-> JInt(6900),
                                      cause |-> JStr("old_age"),
                                      tile |-> JStr("origin")])>>),
                     total_processed |-> JInt(17)]))
      @@ Opt(optional, "last_save_timestamp", JNum(literal, 1000))
      @@ Given(legacy, "version", JStr("0.3")))

\* the members of the object without the one of the given key
Without(json, key) == JObj([k \in DOMAIN json.v \ {key} |-> json.v[k]])

\* the object with the member of the given key replaced
With(json, key, value) == JObj((key :> value) @@ json.v)

\* snapshots that are not well-formed: a required member is missing, a u64 is
\* written with a fraction, a list is null, an enum has an unknown variant
BrokenJsons ==
    {Without(SampleJson, "tick"),
     With(SampleJson, "tick", JFloat(104100 * FP)),
     With(SampleJson, "entities", JNull),
     With(SampleJson, "graveyard", JObj([corpses |-> JArr(<<>>)])),
     With(SampleJson, "entities",
          JArr(<<JObj([id |-> JStr("q"), type |-> JStr("queen"),
                       tile |-> JStr("origin")])>>))}

\* the origin tile and the state of GameState::default with all their fields
Tile_origin ==
    [name \in {TileFields[i].name : i \in DOMAIN TileFields} |->
        CASE name = "name" -> "The Starting Dirt"
          [] name = "tile_type" -> "empty"
          [] name \in {"x", "y"} -> 0
          [] OTHER -> None]

GameState_default_full ==
    [name \in {GameStateFields[i].name : i \in DOMAIN GameStateFields} |->
        CASE name = "tick" -> 0
          [] name \in {"resources", "systems"} -> EmptyMap
          [] name = "entities" -> <<>>
          [] name = "map" -> ("tiles" :> ("origin" :> Tile_origin)) @@ ("connections" :> <<>>)
          [] name = "queues" -> ("actions" :> <<>>) @@ ("events" :> <<>>)
          [] name = "meta" ->
                [field \in {MetaFields[i].name : i \in DOMAIN MetaFields} |->
                    CASE field = "boredom" -> 0
                      [] field = "goals" -> EmptyMap
                      [] field = "sanity" -> 0
                      [] field = "receiver_silent" -> FALSE
                      [] field \in {"estate", "receiver_failed_tick"} -> None
                      [] OTHER -> <<>>]
          [] name = "graveyard" -> Graveyard_default
          [] name = "last_save_timestamp" -> None]

Literals == {"int", "float"}

Optionals == {"absent", "null", "present"}

\* the JSON texts the snapshots are loaded from
SnapshotJsons ==
    {SnapshotJson(optional, literal, defaults, legacy) :
        optional \in Optionals, literal \in Literals,
        defaults \in BOOLEAN, legacy \in BOOLEAN}
    \cup {SampleJson, to_json(GameState_default_full)}
    \cup BrokenJsons

\* bench holds the text the run started from, the text at hand, the state
\* loaded from the text at hand if it was loaded, the first state loaded,
\* whether a load failed, and the number of to_json calls
InitJson ==
    /\ Engines(GameState_default, TickEngine_new(ToU64(42)), TickEngine_new(ToU64(42)),
               None)
    /\ ledger = <<>>
    /\ \E json \in SnapshotJsons :
          bench = [source |-> json, json |-> json, state |-> None, first |-> None,
                   failed |-> FALSE, saves |-> 0]

\* GameState::from_json on the text at hand
Load ==
    /\ bench.state = None
    /\ ~bench.failed
    /\ LET loaded == from_json(bench.json)
       IN  bench' = [bench EXCEPT !.state = loaded,
                                  !.failed = (loaded = None),
                                  !.first = IF @ = None THEN loaded ELSE @]
    /\ UNCHANGED <<state, engine, events, probe, twin, start, calls, crossed, ledger,
                   journal>>

\* GameState::to_json on the loaded state
Save ==
    /\ bench.state # None
    /\ bench.saves < MaxSaves
    /\ bench' = [bench EXCEPT !.json = to_json(bench.state[1]),
                              !.state = None,
                              !.saves = @ + 1]
    /\ UNCHANGED <<state, engine, events, probe, twin, start, calls, crossed, ledger,
                   journal>>

NextJson == Load \/ Save

SpecJson == InitJson /\ [][NextJson]_vars

-----------------------------------------------------------------------------
(* Properties of the snapshots as JSON *)

\* in the JSON value written for the value of type T, every optional field
\* that is None has no member at all
RECURSIVE AbsentWhereNone(_, _, _)
AbsentWhereNone(T, value, json) ==
    CASE T.k = "struct" ->
            \A i \in DOMAIN Fields(T.name) :
               LET f == Fields(T.name)[i]
               IN  IF f.type.k = "option" /\ value[f.name] = None
                   THEN f.key \notin DOMAIN json.v
                   ELSE f.key \in DOMAIN json.v =>
                            AbsentWhereNone(f.type, value[f.name], json.v[f.key])
      [] T.k = "option" -> value # None => AbsentWhereNone(T.of, value[1], json)
      [] T.k = "vec" ->
            \A i \in DOMAIN value : AbsentWhereNone(T.of, value[i], json.v[i])
      [] T.k = "map" ->
            \A key \in DOMAIN value : AbsentWhereNone(T.of, value[key], json.v[key])
      [] OTHER -> TRUE

C30_PresentWitness ==
    /\ bench.source = SnapshotJson("present", "float", TRUE, FALSE)
    /\ bench.saves = 1
    /\ bench.state # None
    /\ bench.state[1]["last_save_timestamp"] = Some(1000 * FP)
    /\ bench.state[1]["entities"][1]["gift_on_death"] # None
    /\ bench.state[1]["systems"]["compost_heap"]["corpse_boosts"] # <<>>
    /\ bench.state[1]["queues"]["actions"][1]["effects"] # None
    /\ bench.json.v["meta"].v["goals"].v["receiver_maintenance"].v["note"].t = "null"

\* C30 case: the round trip of SAMPLE_STATE, whose empty corpse_boosts are
\* not written
C30_SampleWitness ==
    /\ bench.source = SampleJson
    /\ bench.saves = 1
    /\ bench.state # None
    /\ bench.state[1]["tick"] = 104100
    /\ bench.state[1]["graveyard"]["total_processed"] = 17
    /\ bench.state[1]["meta"]["receiver_silent"]
    /\ "corpse_boosts" \notin DOMAIN bench.json.v["systems"].v["compost_heap"].v

\* C30 case: the state of GameState::default, serialized and deserialized
\* twice
C30_TwiceWitness ==
    /\ bench.first = Some(GameState_default_full)
    /\ bench.saves = 2
    /\ bench.state # None

\* C30 case: a snapshot that is not well-formed does not deserialize
C30_BrokenWitness ==
    /\ bench.failed
    /\ bench.saves = 0
    /\ bench.source \in BrokenJsons

\* what the SystemProduced events of the list add to resource k, all told
RECURSIVE NetProduced(_, _)
NetProduced(evs, k) ==
    IF evs = <<>> THEN 0
    ELSE (IF Head(evs).kind = "SystemProduced"
          THEN get(Head(evs).produced, k) - get(Head(evs).consumed, k) ELSE 0)
         + NetProduced(Tail(evs), k)

\* no amount of the map is negative
NonNegative(amounts) == \A k \in DOMAIN amounts : amounts[k] >= 0

\* the systems phase of the latest tick started with no negative amount and
\* no system declares a negative amount
SoundBeforeSystems ==
    /\ NonNegative(probe.after[1].s.resources)
    /\ \A id \in DOMAIN probe.after[1].s.systems :
          /\ NonNegative(UnwrapOr(probe.after[1].s.systems[id].consumes, EmptyMap))
          /\ NonNegative(UnwrapOr(probe.after[1].s.systems[id].generates, EmptyMap))
          /\ \A i \in DOMAIN probe.after[1].s.systems[id].corpse_boosts :
                probe.after[1].s.systems[id].corpse_boosts[i].bonus >= 0

\* the systems that the systems phase of the latest tick found enabled and
\* unable to pay for what they consume
Unpaid ==
    {id \in DOMAIN probe.after[1].s.systems :
        /\ ~is_disabled(probe.after[1].s.systems[id])
        /\ ~can_run(probe.after[1].s.systems[id], probe.after[1].s.resources)}

\* the systems phase has reported the system of the given id
Produced(id) ==
    \E i \in DOMAIN PhaseEvents(2) :
       /\ PhaseEvents(2)[i].kind = "SystemProduced"
       /\ PhaseEvents(2)[i].system_id = id

\* C31: a systems phase that starts with no negative amount and no negative
\* declared amount ends with no negative amount, also when several systems
\* consume the same resource; a system that cannot pay is not reported, and
\* the phase changes every resource by exactly what the reported systems have
\* produced less what they have consumed.
C31_NoOverdraw ==
    (probe.after # <<>> /\ SoundBeforeSystems) =>
        /\ NonNegative(probe.after[2].s.resources)
        /\ \A id \in Unpaid : ~Produced(id)
        /\ \A k \in DOMAIN probe.after[2].s.resources :
              probe.after[2].s.resources[k] =
                  get(probe.after[1].s.resources, k) + NetProduced(PhaseEvents(2), k)

\* C31, as built: each system is checked against the amounts the phase started
\* with, so the amounts stay non-negative when no two systems that run consume
\* the same resource; the rest is as C31 says.
C31_NoOverdrawAsBuilt ==
    (probe.after # <<>> /\ SoundBeforeSystems) =>
        /\ (\A a, b \in DOMAIN probe.after[1].s.systems :
               (a # b /\ Produced(a) /\ Produced(b)) =>
                   DOMAIN UnwrapOr(probe.after[1].s.systems[a].consumes, EmptyMap)
                      \cap DOMAIN UnwrapOr(probe.after[1].s.systems[b].consumes, EmptyMap)
                      = {})
              => NonNegative(probe.after[2].s.resources)
        /\ \A id \in Unpaid : ~Produced(id)
        /\ \A id \in DOMAIN probe.after[1].s.systems :
              Produced(id) =>
                  /\ ~is_disabled(probe.after[1].s.systems[id])
                  /\ can_run(probe.after[1].s.systems[id], probe.after[1].s.resources)
        /\ \A k \in DOMAIN probe.after[2].s.resources :
              probe.after[2].s.resources[k] =
                  get(probe.after[1].s.resources, k) + NetProduced(PhaseEvents(2), k)

\* C31 case: two converters each find the 0.005 dirt they consume, both run,
\* and the dirt ends at -0.005
C31_OverdrawnWitness ==
    /\ probe.after # <<>>
    /\ SoundBeforeSystems
    /\ get(probe.after[1].s.resources, "dirt") = 50
    /\ Produced("compost_heap")
    /\ Produced("dig_site")
    /\ get(probe.after[2].s.resources, "dirt") = -50

\* C31 case: two systems consume the same resource and there is enough for
\* both
C31_SharedWitness ==
    /\ probe.after # <<>>
    /\ SoundBeforeSystems
    /\ get(probe.after[1].s.resources, "dirt") = 150
    /\ Produced("compost_heap")
    /\ Produced("dig_site")
    /\ get(probe.after[2].s.resources, "dirt") = 50

\* C31 case: a system that cannot pay beside one that runs
C31_UnpaidWitness ==
    /\ probe.after # <<>>
    /\ SoundBeforeSystems
    /\ Unpaid # {}
    /\ \E id \in DOMAIN probe.after[1].s.systems : Produced(id)
    /\ \E k \in DOMAIN probe.after[2].s.resources : NetProduced(PhaseEvents(2), k) # 0

\* the corpse boosts of the system of the given id in snapshot s, none if
\* there is no such system
SystemBoosts(s, id) == IF id \in DOMAIN s.systems THEN s.systems[id].corpse_boosts ELSE <<>>

\* the boosts of the list that have not expired at the given tick
Unexpired(boosts, at) == SelectSeq(boosts, LAMBDA b : b.expires_at_tick > at)

\* the sum of the bonuses of the boosts
RECURSIVE BonusSum(_)
BonusSum(boosts) == IF boosts = <<>> THEN 0 ELSE Head(boosts).bonus + BonusSum(Tail(boosts))

\* the nutrients the compost_heap was reported to produce in the latest tick
\* above the nutrients it generates by itself
BonusPaid ==
    LET reports == SelectSeq(PhaseEvents(2),
                             LAMBDA e : e.kind = "SystemProduced"
                                           /\ e.system_id = "compost_heap")
    IN  get(reports[1].produced, "nutrients")
           - get(UnwrapOr(probe.pre.s.systems["compost_heap"].generates, EmptyMap),
                 "nutrients")

\* the boosts that ticks before the latest one have added within the last
\* CORPSE_BOOST_DURATION ticks, counted from the given tick on
AddedSince(from) ==
    Cardinality({i \in DOMAIN journal.boosted :
                    /\ journal.boosted[i] < state.tick
                    /\ journal.boosted[i] >= from})

\* the tick of the latest blight strike before the latest tick, 0 if none
StruckBefore ==
    IF journal.struck[2] = state.tick THEN journal.struck[1] ELSE journal.struck[2]

\* C32: when the compost_heap runs in a tick it produces, above its own
\* generation, 0.1 nutrients for every boost that an undertakers phase of an
\* earlier tick has added less than CORPSE_BOOST_DURATION ticks ago, and the
\* bonus of every boost of the starting snapshot that has not expired: a boost
\* pays from the tick after the one that added it to the tick before its
\* expiry; and after a tick no system holds a boost whose expiry tick is at or
\* below the current tick.
C32_BoostWindow ==
    probe.after # <<>> =>
        /\ Produced("compost_heap") =>
              BonusPaid = AddedSince(0) * CORPSE_NUTRIENT_BOOST
                             + BonusSum(Unexpired(SystemBoosts(start.state, "compost_heap"),
                                                  state.tick))
        /\ \A id \in DOMAIN state.systems :
              \A i \in DOMAIN SystemBoosts(state, id) :
                 SystemBoosts(state, id)[i].expires_at_tick > state.tick

\* C32, amended: a blight strike drops all boosts of the compost_heap, so a
\* boost pays from the tick after the one that added it to the tick before
\* its expiry or to the tick of the next blight strike, whichever is first,
\* and a boost added in the tick of a strike never pays.  Phase by phase: the
\* compost_heap pays the boosts it held before the tick whose expiry tick is
\* above the current tick; the systems phase drops the boosts whose expiry
\* tick is at or below the current tick and no others; the undertakers phase
\* appends boosts of 0.1 nutrients that expire CORPSE_BOOST_DURATION ticks
\* later to the compost_heap and to no other system; the blight phase drops
\* the boosts of the compost_heap when blight strikes; no other phase changes
\* boosts.
C32_BoostWindowUnlessStruck ==
    probe.after # <<>> =>
        /\ Produced("compost_heap") =>
              /\ BonusPaid = BonusSum(Unexpired(SystemBoosts(probe.pre.s, "compost_heap"),
                                                state.tick))
              /\ BonusPaid =
                    AddedSince(StruckBefore + 1) * CORPSE_NUTRIENT_BOOST
                       + (IF StruckBefore = 0
                          THEN BonusSum(Unexpired(SystemBoosts(start.state, "compost_heap"),
                                                  state.tick))
                          ELSE 0)
        /\ \A id \in DOMAIN state.systems :
              /\ SystemBoosts(probe.after[1].s, id) = SystemBoosts(probe.pre.s, id)
              /\ SystemBoosts(probe.after[2].s, id) =
                    Unexpired(SystemBoosts(probe.pre.s, id), state.tick)
              /\ SystemBoosts(probe.after[3].s, id) = SystemBoosts(probe.after[2].s, id)
              /\ Len(SystemBoosts(probe.after[4].s, id))
                    >= Len(SystemBoosts(probe.after[3].s, id))
              /\ \A i \in DOMAIN SystemBoosts(probe.after[4].s, id) :
                    IF i <= Len(SystemBoosts(probe.after[3].s, id))
                    THEN SystemBoosts(probe.after[4].s, id)[i] =
                            SystemBoosts(probe.after[3].s, id)[i]
                    ELSE /\ id = "compost_heap"
                         /\ SystemBoosts(probe.after[4].s, id)[i] =
                               [expires_at_tick |-> state.tick + CORPSE_BOOST_DURATION,
                                bonus |-> CORPSE_NUTRIENT_BOOST]
              /\ SystemBoosts(state, id) =
                    IF id = "compost_heap" /\ HasKind(events, "BlightStruck")
                    THEN <<>> ELSE SystemBoosts(probe.after[4].s, id)
              /\ \A i \in DOMAIN SystemBoosts(state, id) :
                    SystemBoosts(state, id)[i].expires_at_tick > state.tick

\* C32 case: a blight strike in the tick in which an undertaker has added a
\* boost: the compost_heap holds no boost after the tick
C32_StruckWitness ==
    /\ probe.after # <<>>
    /\ HasKind(events, "BlightStruck")
    /\ Len(SystemBoosts(probe.after[4].s, "compost_heap"))
          > Len(SystemBoosts(probe.after[3].s, "compost_heap"))
    /\ SystemBoosts(state, "compost_heap") = <<>>

\* C32 case: the compost_heap runs again after a blight, less than
\* CORPSE_BOOST_DURATION ticks after a boost was added, and does not pay it
C32_LostWitness ==
    /\ probe.after # <<>>
    /\ Produced("compost_heap")
    /\ AddedSince(0) > AddedSince(StruckBefore + 1)

\* C32 case: the last tick of a boost that was added during the run, 599
\* ticks after the tick that added it; the compost_heap runs and pays it
C32_Witness ==
    /\ probe.after # <<>>
    /\ SystemBoosts(start.state, "compost_heap") = <<>>
    /\ Produced("compost_heap")
    /\ \E i \in DOMAIN SystemBoosts(probe.pre.s, "compost_heap") :
          SystemBoosts(probe.pre.s, "compost_heap")[i].expires_at_tick = state.tick + 1
    /\ BonusPaid >= CORPSE_NUTRIENT_BOOST

\* C32 case: the expiry tick of the only boost left; the compost_heap runs,
\* pays no bonus, and the boost is dropped
C32_ExpiryWitness ==
    /\ probe.after # <<>>
    /\ Produced("compost_heap")
    /\ Len(SystemBoosts(probe.pre.s, "compost_heap")) = 1
    /\ SystemBoosts(probe.pre.s, "compost_heap")[1].expires_at_tick = state.tick
    /\ BonusPaid = 0
    /\ SystemBoosts(state, "compost_heap") = <<>>

\* C32 case: three boosts at once
C32_SumWitness ==
    /\ probe.after # <<>>
    /\ Produced("compost_heap")
    /\ BonusPaid = 3 * CORPSE_NUTRIENT_BOOST

\* C32 case: the tick that adds the first boost; the compost_heap has run
\* without bonus
C32_AddedWitness ==
    /\ probe.after # <<>>
    /\ Produced("compost_heap")
    /\ SystemBoosts(probe.after[3].s, "compost_heap") = <<>>
    /\ Len(SystemBoosts(probe.after[4].s, "compost_heap")) = 1
    /\ BonusPaid = 0

\* C32 case: the tick after the one that added the first boost
C32_NextTickWitness ==
    /\ probe.after # <<>>
    /\ Produced("compost_heap")
    /\ Len(SystemBoosts(probe.pre.s, "compost_heap")) = 1
    /\ SystemBoosts(probe.pre.s, "compost_heap")[1].expires_at_tick =
          state.tick - 1 + CORPSE_BOOST_DURATION
    /\ BonusPaid = CORPSE_NUTRIENT_BOOST

-----------------------------------------------------------------------------
(* C33: the contamination of a tile *)

\* the contamination of a tile of a snapshot
TileContamination(s, id) == UnwrapOr(s.map.tiles[id].contamination, 0)

\* the corpses whose processing the undertakers phase of the latest tick
\* completed on the compost tile
Completions ==
    Cardinality({k \in DOMAIN PhaseEvents(4) : PhaseEvents(4)[k].kind = "CorpseProcessed"})

\* C33: over a tick, a contamination that was within [0, 1] is within [0, 1]
\* after every phase.  Only two phases change it, and only on the compost
\* tile: the undertakers phase adds CONTAMINATION_PER_CORPSE for every corpse
\* whose processing completes, up to MAX_CONTAMINATION, so it never lowers
\* it; the blight phase sets it to 0 when the blight clears and leaves it
\* alone otherwise.  On a tile that is blighted when the tick begins it stays
\* as it was unless the blight clears in that tick.
C33_ContaminationBounds ==
    probe.after # <<>> =>
        \A id \in DOMAIN probe.pre.s.map.tiles :
            LET before == TileContamination(probe.pre.s, id)
                at(k) == TileContamination(probe.after[k].s, id)
                cleared == id = "compost" /\ HasKind(PhaseEvents(5), "BlightCleared")
            IN  /\ id \in DOMAIN state.map.tiles
                /\ \A k \in 1..10 : id \in DOMAIN probe.after[k].s.map.tiles
                /\ before \in 0..MAX_CONTAMINATION =>
                      /\ \A k \in 1..10 : at(k) \in 0..MAX_CONTAMINATION
                      /\ TileContamination(state, id) \in 0..MAX_CONTAMINATION
                /\ at(1) = before /\ at(2) = before /\ at(3) = before
                /\ at(4) = IF id = "compost"
                           THEN Min(before + Completions * CONTAMINATION_PER_CORPSE,
                                    Max(before, MAX_CONTAMINATION))
                           ELSE before
                /\ at(4) >= before
                /\ at(5) = IF cleared THEN 0 ELSE at(4)
                /\ \A k \in 6..10 : at(k) = at(5)
                /\ TileContamination(state, id) = at(10)
                /\ is_blighted(probe.pre.s.map.tiles[id]) =>
                      /\ at(4) = before
                      /\ TileContamination(state, id) = IF cleared THEN 0 ELSE before
                /\ TileContamination(state, id) < before =>
                      /\ cleared
                      /\ is_blighted(probe.pre.s.map.tiles[id])
                      /\ ~is_blighted(state.map.tiles[id])
                      /\ TileContamination(state, id) = 0

\* C33 case: an undertaker completes a corpse and the contamination of the
\* compost tile rises by CONTAMINATION_PER_CORPSE
C33_Witness ==
    /\ probe.after # <<>>
    /\ Completions = 1
    /\ "compost" \in DOMAIN probe.pre.s.map.tiles
    /\ TileContamination(probe.after[4].s, "compost") =
          TileContamination(probe.pre.s, "compost") + CONTAMINATION_PER_CORPSE

\* C33 case: a completion less than CONTAMINATION_PER_CORPSE below the cap
C33_CapWitness ==
    /\ probe.after # <<>>
    /\ Completions >= 1
    /\ "compost" \in DOMAIN probe.pre.s.map.tiles
    /\ TileContamination(probe.pre.s, "compost") < MAX_CONTAMINATION
    /\ TileContamination(probe.pre.s, "compost") + CONTAMINATION_PER_CORPSE > MAX_CONTAMINATION
    /\ TileContamination(probe.after[4].s, "compost") = MAX_CONTAMINATION

\* C33 case: the blight clears and a contamination above 0 is reset
C33_ResetWitness ==
    /\ probe.after # <<>>
    /\ HasKind(events, "BlightCleared")
    /\ TileContamination(probe.pre.s, "compost") > 0
    /\ TileContamination(state, "compost") = 0

\* C33 case: a tick on a blighted tile that stays blighted, with an undertaker
\* in the colony
C33_BlightedWitness ==
    /\ probe.after # <<>>
    /\ "compost" \in DOMAIN probe.pre.s.map.tiles
    /\ is_blighted(probe.pre.s.map.tiles["compost"])
    /\ is_blighted(state.map.tiles["compost"])
    /\ TileContamination(state, "compost") > 0
    /\ \E i \in DOMAIN state.entities : state.entities[i].role = Some("undertaker")

-----------------------------------------------------------------------------
(* C34: the influence over the receiver phase *)

\* the influence when the receiver phase of the latest tick began and ended
InfluenceBefore == get(probe.after[6].s.resources, "influence")

InfluenceAfter == get(probe.after[7].s.resources, "influence")

\* the receiver listened in the latest tick: it exists and is not silent
\* after its maintenance
Listened ==
    /\ has_system(probe.after[6].s, "receiver")
    /\ ~probe.after[7].s.meta.receiver_silent

\* the influence after the listening drain of the latest tick
InfluenceDrained ==
    IF Listened THEN Drained(InfluenceBefore) ELSE InfluenceBefore

\* C34: the receiver phase takes the listening drain only from an influence
\* above it, and spends SUMMON_COST on a summon only when at least that much
\* is left after the drain; it changes the influence in no other way, so an
\* influence that is not negative before the phase is not negative after it.
C34_InfluenceNotNegative ==
    probe.after # <<>> =>
        /\ InfluenceBefore >= 0 => InfluenceAfter >= 0
        /\ InfluenceAfter =
              IF HasKind(PhaseEvents(7), "InfluenceSpent")
              THEN InfluenceDrained - SUMMON_COST ELSE InfluenceDrained
        /\ HasKind(PhaseEvents(7), "InfluenceSpent") =>
              /\ Listened
              /\ InfluenceDrained >= SUMMON_COST
        /\ \A k \in DOMAIN PhaseEvents(7) :
              PhaseEvents(7)[k].kind = "InfluenceSpent" =>
                 PhaseEvents(7)[k].amount = SUMMON_COST

\* C34 case: the drain leaves exactly SUMMON_COST, and the summon spends it
C34_Witness ==
    /\ probe.after # <<>>
    /\ InfluenceBefore = SUMMON_COST + LISTENING_DRAIN
    /\ HasKind(PhaseEvents(7), "InfluenceSpent")
    /\ InfluenceAfter = 0

\* C34 case: the drain leaves less than SUMMON_COST and nothing is spent
C34_ShortWitness ==
    /\ probe.after # <<>>
    /\ Listened
    /\ InfluenceBefore >= SUMMON_COST
    /\ InfluenceAfter = InfluenceBefore - LISTENING_DRAIN
    /\ InfluenceAfter < SUMMON_COST

\* C34 case: an influence of exactly the drain, or none, is left alone by a
\* listening receiver
C34_UndrainedWitness ==
    /\ probe.after # <<>>
    /\ Listened
    /\ InfluenceBefore = LISTENING_DRAIN
    /\ InfluenceAfter = InfluenceBefore

\* C34 case: a listening receiver with no influence at all
C34_EmptyWitness ==
    /\ probe.after # <<>>
    /\ Listened
    /\ InfluenceBefore = 0
    /\ InfluenceAfter = 0

\* C34 case: a silent receiver takes nothing
C34_SilentWitness ==
    /\ probe.after # <<>>
    /\ has_system(probe.after[6].s, "receiver")
    /\ probe.after[7].s.meta.receiver_silent
    /\ InfluenceBefore > SUMMON_COST
    /\ InfluenceAfter = InfluenceBefore

-----------------------------------------------------------------------------
(* C35: the passive generation of visitors *)

\* the resources an entity generates in the visitors phase
Generated(entity) ==
    IF entity.entity_type = "visitor" /\ IsSome(entity.generates)
    THEN DOMAIN entity.generates[1] ELSE {}

RECURSIVE GeneratedSum(_, _)
\* what the entities generate of one resource
GeneratedSum(entities, resource) ==
    IF entities = <<>> THEN 0
    ELSE (IF resource \in Generated(Head(entities))
          THEN Head(entities).generates[1][resource] ELSE 0)
            + GeneratedSum(Tail(entities), resource)

RECURSIVE GeneratedCount(_)
\* the number of amounts the entities generate
GeneratedCount(entities) ==
    IF entities = <<>> THEN 0
    ELSE Cardinality(Generated(Head(entities))) + GeneratedCount(Tail(entities))

\* C35: the visitors phase emits PassiveGeneration events and nothing else,
\* one for every visitor alive at the start of the phase (the receiver phase
\* of the same tick may just have brought it) and every resource of its
\* generates map, with the visitor's id and the amount of the map; every
\* resource grows by the sum of those amounts; an ant, and a visitor without
\* a generates map, gets no event; the entities are left as they were.
C35_PassiveGeneration ==
    probe.after # <<>> =>
        LET entities == probe.after[7].s.entities
            evs == PhaseEvents(8)
        IN  /\ probe.after[8].s.entities = entities
            /\ Len(evs) = GeneratedCount(entities)
            /\ \A k \in DOMAIN evs :
                  /\ evs[k].kind = "PassiveGeneration"
                  /\ \E i \in DOMAIN entities :
                        /\ entities[i].id = evs[k].entity_id
                        /\ evs[k].resource \in Generated(entities[i])
                        /\ evs[k].amount = entities[i].generates[1][evs[k].resource]
            /\ \A i \in DOMAIN entities :
                  \A resource \in Generated(entities[i]) :
                     Cardinality({k \in DOMAIN evs :
                                     /\ evs[k].entity_id = entities[i].id
                                     /\ evs[k].resource = resource}) =
                        Cardinality({j \in DOMAIN entities :
                                        /\ entities[j].id = entities[i].id
                                        /\ resource \in Generated(entities[j])})
            /\ \A i \in DOMAIN entities :
                  Generated(entities[i]) = {} =>
                     \/ \A k \in DOMAIN evs : evs[k].entity_id # entities[i].id
                     \/ \E j \in DOMAIN entities :
                           entities[j].id = entities[i].id /\ Generated(entities[j]) # {}
            /\ \A resource \in DOMAIN probe.after[7].s.resources
                                  \cup DOMAIN probe.after[8].s.resources :
                  get(probe.after[8].s.resources, resource) =
                     get(probe.after[7].s.resources, resource)
                        + GeneratedSum(entities, resource)

\* C35 case: a visitor that the receiver phase brought generates in the
\* visitors phase of the same tick
C35_Witness ==
    /\ probe.after # <<>>
    /\ \E a \in DOMAIN PhaseEvents(7), k \in DOMAIN PhaseEvents(8) :
          /\ PhaseEvents(7)[a].kind = "VisitorArrived"
          /\ PhaseEvents(8)[k].entity_id = PhaseEvents(7)[a].visitor_id

\* C35 case: a visitor with two resources in its map, next to a wanderer
\* and to an ant that carries a generates map
C35_TwoWitness ==
    /\ probe.after # <<>>
    /\ \E i, j, w \in DOMAIN probe.after[7].s.entities :
          /\ Cardinality(Generated(probe.after[7].s.entities[i])) = 2
          /\ probe.after[7].s.entities[j].entity_type = "ant"
          /\ IsSome(probe.after[7].s.entities[j].generates)
          /\ probe.after[7].s.entities[w].entity_type = "visitor"
          /\ probe.after[7].s.entities[w].generates = None
    /\ Len(PhaseEvents(8)) = 3

\* C35 case: a visitor arrives that generates nothing
C35_QuietWitness ==
    /\ probe.after # <<>>
    /\ HasKind(PhaseEvents(7), "VisitorArrived")
    /\ PhaseEvents(8) = <<>>

-----------------------------------------------------------------------------
(* C36: the departure of visitors *)

\* the entity of the colony is a visitor that the entities phase of the
\* latest tick removed
Departed(i) ==
    /\ probe.after[2].s.entities[i].entity_type = "visitor"
    /\ \A j \in DOMAIN probe.after[3].s.entities :
          probe.after[3].s.entities[j].id # probe.after[2].s.entities[i].id

RECURSIVE GiftSum(_, _)
\* what the visitors that departed, among the first n entities, gave of one
\* resource
GiftSum(n, resource) ==
    IF n = 0 THEN 0
    ELSE (IF Departed(n) /\ IsSome(probe.after[2].s.entities[n].gift_on_death)
             /\ resource \in DOMAIN probe.after[2].s.entities[n].gift_on_death[1]
          THEN probe.after[2].s.entities[n].gift_on_death[1][resource] ELSE 0)
            + GiftSum(n - 1, resource)

RECURSIVE EatenSum(_, _)
\* what the first n entities ate of one resource in the entities phase
EatenSum(n, resource) ==
    IF n = 0 THEN 0
    ELSE (IF probe.steps[n].food = Some(resource)
          THEN probe.steps[n].stock - probe.steps[n].stock_out ELSE 0)
            + EatenSum(n - 1, resource)

\* the events of the given kind about the given entity in the entities phase
\* of the latest tick
EventsAbout(kind, id) ==
    {k \in DOMAIN PhaseEvents(3) :
        /\ PhaseEvents(3)[k].kind = kind
        /\ IF kind = "VisitorDeparted" THEN PhaseEvents(3)[k].visitor_id = id
           ELSE PhaseEvents(3)[k].entity_id = id}

\* C36: a visitor leaves in the entities phase exactly when, after ageing and
\* eating, its hunger is at or below 0 or its age has reached its max_age.
\* It is then not among the entities after the phase nor after the tick, it
\* gets exactly one VisitorDeparted event, which carries its gift map, no
\* EntityDied event and no corpse, and every resource of a gift changes in
\* the phase by the gifts of the departed, once each, less what was eaten
\* (plus the strange_matter the hungry made); a visitor that stays gets no
\* VisitorDeparted, and no other phase emits one.  A wanderer that a summon
\* brought in tick t is in the colony, with age (tick - t), at the end of
\* every tick before t + 1800 and departs in tick t + 1800 with a gift of 1
\* strange_matter.
C36_VisitorDeparture ==
    probe.after # <<>> =>
        LET entities == probe.after[2].s.entities
        IN  /\ Len(probe.steps) = Len(entities)
            /\ \A i \in DOMAIN entities :
                  entities[i].entity_type = "visitor" =>
                     /\ Departed(i) <=> \/ probe.steps[i].hunger_out <= 0
                                        \/ entities[i].age + 1 >= entities[i].max_age
                     /\ Cardinality(EventsAbout("VisitorDeparted", entities[i].id)) =
                           IF Departed(i) THEN 1 ELSE 0
                     /\ \A k \in EventsAbout("VisitorDeparted", entities[i].id) :
                           PhaseEvents(3)[k].gift = entities[i].gift_on_death
                     /\ EventsAbout("EntityDied", entities[i].id) = {}
                     /\ Len(probe.after[3].s.graveyard.corpses) >=
                           Len(probe.after[2].s.graveyard.corpses)
                     /\ \A k \in DOMAIN probe.after[3].s.graveyard.corpses :
                           k > Len(probe.after[2].s.graveyard.corpses) =>
                              probe.after[3].s.graveyard.corpses[k].entity_id # entities[i].id
                     /\ Departed(i) =>
                           \A j \in DOMAIN state.entities :
                              state.entities[j].id # entities[i].id
            /\ \A k \in DOMAIN events :
                  events[k].kind = "VisitorDeparted" =>
                     /\ k > probe.after[2].nev /\ k <= probe.after[3].nev
                     /\ \E i \in DOMAIN entities :
                           Departed(i) /\ entities[i].id = events[k].visitor_id
                     /\ (events[k].visitor_id \in DOMAIN journal.arrived
                            /\ events[k].visitor_type = "wanderer") =>
                           /\ state.tick = journal.arrived[events[k].visitor_id] + 1800
                           /\ events[k].gift = Some(Entry("strange_matter", 1 * FP))
            /\ \A resource \in UNION {DOMAIN entities[i].gift_on_death[1] :
                                         i \in {x \in DOMAIN entities :
                                                   /\ Departed(x)
                                                   /\ IsSome(entities[x].gift_on_death)}} :
                  get(probe.after[3].s.resources, resource) =
                     get(probe.after[2].s.resources, resource)
                        + GiftSum(Len(entities), resource)
                        - EatenSum(Len(entities), resource)
                        + (IF resource = "strange_matter"
                           THEN HUNGRY_STRANGE_MATTER_PRODUCE
                                   * Cardinality({k \in DOMAIN PhaseEvents(3) :
                                        PhaseEvents(3)[k].kind = "InfluenceTransformed"})
                           ELSE 0)
            /\ \A j \in DOMAIN state.entities :
                  (state.entities[j].id \in DOMAIN journal.arrived
                      /\ state.entities[j].subtype = Some("wanderer")) =>
                     /\ state.tick < journal.arrived[state.entities[j].id] + 1800
                     /\ state.entities[j].age =
                           state.tick - journal.arrived[state.entities[j].id]

\* C36 case: a wanderer that arrived during the run departs with its gift
C36_Witness ==
    /\ probe.after # <<>>
    /\ \E k \in DOMAIN events :
          /\ events[k].kind = "VisitorDeparted"
          /\ events[k].visitor_type = "wanderer"
          /\ events[k].visitor_id \in DOMAIN journal.arrived
          /\ get(probe.after[3].s.resources, "strange_matter") =
                get(probe.after[2].s.resources, "strange_matter") + 1 * FP

\* C36 case: a visitor without a gift departs because its hunger is used up
C36_StarvedWitness ==
    /\ probe.after # <<>>
    /\ \E i \in DOMAIN probe.after[2].s.entities :
          /\ Departed(i)
          /\ probe.steps[i].hunger_out <= 0
          /\ probe.after[2].s.entities[i].age + 1 < probe.after[2].s.entities[i].max_age
          /\ probe.after[2].s.entities[i].gift_on_death = None

\* C36 case: a wanderer one tick short of its max_age stays
C36_StaysWitness ==
    /\ probe.after # <<>>
    /\ \E j \in DOMAIN state.entities :
          /\ state.entities[j].subtype = Some("wanderer")
          /\ state.entities[j].age = state.entities[j].max_age - 1

-----------------------------------------------------------------------------
(* C37: the corpses *)

\* the corpses of a snapshot that are accounted for: waiting in the
\* graveyard, in the hands of an undertaker, or counted as processed
Accounted(s) ==
    Len(s.graveyard.corpses) + Cardinality(Carrying(s.entities))
       + s.graveyard.total_processed

\* C37: the corpses added to the graveyard since the snapshot the run began
\* with are as many as the corpses waiting, the corpses being processed by
\* an undertaker in the colony and the corpses counted in total_processed
\* have together grown since then.
C37_CorpseAccounting ==
    journal.buried = Accounted(state) - Accounted(start.state)

\* C37 as built: a corpse leaves the account when the undertaker processing
\* it is removed from the colony, and when it is delivered on a map without a
\* compost tile; with those counted the account is exact.
C37_CorpseAccountingAsBuilt ==
    /\ journal.buried =
          Accounted(state) - Accounted(start.state) + journal.orphaned + journal.unmarked
    /\ journal.orphaned >= 0
    /\ journal.unmarked >= 0
    /\ journal.unmarked > 0 => "compost" \notin DOMAIN state.map.tiles

\* C37 case: an undertaker dies with a corpse in its hands, on a map with a
\* compost tile, and the corpse is in no count
C37_OrphanedWitness ==
    /\ probe.after # <<>>
    /\ "compost" \in DOMAIN state.map.tiles
    /\ journal.orphaned > 0
    /\ journal.unmarked = 0
    /\ journal.buried > Accounted(state) - Accounted(start.state)

\* C37 case: a delivery that total_processed does not count
C37_UnmarkedWitness ==
    /\ probe.after # <<>>
    /\ journal.unmarked > 0

\* C37 case: corpses added, taken and delivered, and the account is exact
C37_ExactWitness ==
    /\ probe.after # <<>>
    /\ journal.buried > 0
    /\ state.graveyard.total_processed > start.state.graveyard.total_processed
    /\ Carrying(state.entities) # {}
    /\ journal.buried = Accounted(state) - Accounted(start.state)

-----------------------------------------------------------------------------
(* C38: what the maintenance of the receiver charges *)

\* the strange_matter the receiver phase of the latest tick consumed
Charged ==
    get(probe.after[6].s.resources, "strange_matter")
       - get(probe.after[7].s.resources, "strange_matter")

\* C38: the receiver phase of a tick consumes at most
\* MAINTENANCE_COST_STRANGE_MATTER strange_matter, and when it consumes any
\* the receiver is not silent afterwards.
C38_ChargedOnce ==
    probe.after # <<>> =>
        /\ Charged <= MAINTENANCE_COST_STRANGE_MATTER
        /\ Charged > 0 => ~probe.after[7].s.meta.receiver_silent

\* C38 as built: a receiver that is not silent is charged at most once and
\* is not silent after a charge.  A silent receiver whose maintenance is due
\* is charged once by the periodic check and once more by the restoring
\* check: with strange_matter for both it pays twice and is restored, with
\* strange_matter for one it pays once and stays silent.
C38_ChargedAsBuilt ==
    probe.after # <<>> =>
        LET silent == probe.after[6].s.meta.receiver_silent
            fuel == get(probe.after[6].s.resources, "strange_matter")
        IN  /\ Charged \in {0, MAINTENANCE_COST_STRANGE_MATTER,
                            2 * MAINTENANCE_COST_STRANGE_MATTER}
            /\ Charged > 0 => has_system(probe.after[6].s, "receiver")
            /\ ~silent =>
                  /\ Charged <= MAINTENANCE_COST_STRANGE_MATTER
                  /\ Charged > 0 => ~probe.after[7].s.meta.receiver_silent
            /\ (silent /\ MaintenanceDue) =>
                  /\ Charged = IF fuel >= 2 * MAINTENANCE_COST_STRANGE_MATTER
                               THEN 2 * MAINTENANCE_COST_STRANGE_MATTER
                               ELSE IF fuel >= MAINTENANCE_COST_STRANGE_MATTER
                               THEN MAINTENANCE_COST_STRANGE_MATTER ELSE 0
                  /\ probe.after[7].s.meta.receiver_silent <=>
                        fuel < 2 * MAINTENANCE_COST_STRANGE_MATTER
            /\ (silent /\ ~MaintenanceDue) =>
                  /\ Charged <= MAINTENANCE_COST_STRANGE_MATTER
                  /\ Charged > 0 => ~probe.after[7].s.meta.receiver_silent

\* C38 case: a silent receiver with 2 strange_matter pays twice in one tick
C38_TwiceWitness ==
    /\ probe.after # <<>>
    /\ probe.after[6].s.meta.receiver_silent
    /\ Charged = 2 * MAINTENANCE_COST_STRANGE_MATTER
    /\ ~probe.after[7].s.meta.receiver_silent

\* C38 case: a silent receiver with 1 strange_matter pays and stays silent
C38_SilentWitness ==
    /\ probe.after # <<>>
    /\ Charged = MAINTENANCE_COST_STRANGE_MATTER
    /\ probe.after[7].s.meta.receiver_silent

\* C38 case: a listening receiver pays its periodic maintenance once
C38_OnceWitness ==
    /\ probe.after # <<>>
    /\ ~probe.after[6].s.meta.receiver_silent
    /\ Charged = MAINTENANCE_COST_STRANGE_MATTER
    /\ ~probe.after[7].s.meta.receiver_silent

-----------------------------------------------------------------------------
(* C39: one engine and its snapshot under init_from_state, tick and       *)
(* process_offline_progress calls in any order                            *)

\* a young colony whose ants are older than the snapshot's tick; a colony
\* with a queen chamber and a listening receiver; a colony in the middle of
\* things; an empty colony.  All were saved at 1000.0 seconds.
BookSnapshots ==
    {[s EXCEPT !.last_save_timestamp = Some(10000000)] :
        s \in {[GameState_default EXCEPT
                   !.tick = 5,
                   !.resources = [nutrients |-> 200000, fungus |-> 200000],
                   !.systems = [queen_chamber |-> bare_system("spawner")],
                   !.entities = <<[new_worker(Sid(1), "origin") EXCEPT !.age = 100]>>],
               QueenReceiverSnapshot(0, 10000),
               OfflineColonySnapshot(TRUE, 1000000),
               EmergencySnapshot}}

\* the wall clock at a process_offline_progress call: 9.9999 and 13 seconds
\* after the save
BookTimestamps == {10099999, 10130000}

\* bench.made: the calls made so far, in order
InitBook ==
    /\ \E snapshot \in BookSnapshots :
          Engines(snapshot, TickEngine_new(ToU64(42)), TickEngine_new(ToU64(42)), None)
    /\ ledger = <<>>
    /\ bench = [current_timestamp |-> 0, made |-> <<>>]

\* one tick() call
TickBook ==
    /\ calls < MaxBookCalls
    /\ \E ord \in HashOrders : AdvanceLong(tick(state, engine, ord))
    /\ calls' = calls + 1
    /\ bench' = [bench EXCEPT !.made = Append(@, "tick")]
    /\ UNCHANGED <<twin, start, crossed, ledger>>

\* one init_from_state() call on the snapshot as it is
AttachBook ==
    /\ calls < MaxBookCalls
    /\ engine' = init_from_state(engine, state)
    /\ calls' = calls + 1
    /\ bench' = [bench EXCEPT !.made = Append(@, "init_from_state")]
    /\ UNCHANGED <<state, events, probe, twin, start, crossed, ledger, journal>>

\* one process_offline_progress() call
OfflineBook ==
    /\ calls < MaxBookCalls
    /\ \E current_timestamp \in BookTimestamps, ord \in HashOrders :
          /\ AdvanceOffline(process_offline_progress(state, engine, current_timestamp, ord))
          /\ bench' = [current_timestamp |-> current_timestamp,
                       made |-> Append(bench.made, "process_offline_progress")]
    /\ calls' = calls + 1
    /\ UNCHANGED <<twin, start, crossed, ledger, journal>>

NextBook == TickBook \/ AttachBook \/ OfflineBook

SpecBook == InitBook /\ [][NextBook]_vars

\* C39: whatever calls were made on the engine and its snapshot, the
\* engine's last_spawn_tick and last_summon_tick are at most the tick of the
\* snapshot; and in the latest tick they were at most the tick when the
\* queen phase and the receiver phase began, so that neither
\* tick - last_spawn_tick nor tick - last_summon_tick went below 0.
C39_BookNotAhead ==
    /\ engine.last_spawn_tick <= state.tick
    /\ engine.last_summon_tick <= state.tick
    /\ engine.last_spawn_tick >= 0
    /\ engine.last_summon_tick >= 0
    /\ probe.after # <<>> =>
          /\ probe.pre.e.last_spawn_tick <= probe.pre.s.tick
          /\ probe.pre.e.last_summon_tick <= probe.pre.s.tick
          /\ \A k \in 1..10 :
                /\ probe.after[k].e.last_spawn_tick <= probe.after[k].s.tick
                /\ probe.after[k].e.last_summon_tick <= probe.after[k].s.tick
                /\ probe.after[k].s.tick = state.tick

\* C39 case: all three kinds of call were made and the engine has recorded a
\* spawn and a summon
C39_Witness ==
    /\ Range(bench.made) = {"tick", "init_from_state", "process_offline_progress"}
    /\ engine.last_spawn_tick > 0
    /\ engine.last_summon_tick > 0
    /\ state.tick > start.state.tick + 1

\* C39 case: init_from_state on a snapshot whose youngest ant is older than
\* the snapshot's tick
C39_SaturatedWitness ==
    /\ bench.made # <<>>
    /\ bench.made[Len(bench.made)] = "init_from_state"
    /\ YoungestAntAge(state.entities) > state.tick
    /\ engine.last_spawn_tick = 0

\* C39 case: init_from_state after ticks and offline ticks, on a colony with
\* ants, gives a last_spawn_tick below the tick
C39_ReattachedWitness ==
    /\ Len(bench.made) = 3
    /\ bench.made[3] = "init_from_state"
    /\ bench.made[1] # "init_from_state"
    /\ engine.last_spawn_tick > 0
    /\ engine.last_spawn_tick < state.tick

-----------------------------------------------------------------------------
(* C40: how long an entity lives *)

\* whether the entities hold one with the given id
Among(entities, id) == \E j \in DOMAIN entities : entities[j].id = id

\* the ids of the entities that the queen and the receiver created in the
\* latest tick
Created ==
    UNION {IF events[k].kind \in {"AntsSpawned", "EmergencySpawn"}
           THEN {events[k].worker_id, events[k].undertaker_id}
           ELSE IF events[k].kind = "VisitorArrived" THEN {events[k].visitor_id}
           ELSE {} : k \in DOMAIN events}

\* C40: an entity of the starting snapshot with age a and max_age m that is
\* still in the colony after n ticks has age a + n, and n = 0 or a + n < m:
\* it is removed in the (m - a)-th tick at the latest, in the first if
\* a >= m.  In every tick the entities phase adds 1 to the age of every
\* entity and removes those whose age has reached their max_age; an ant
\* removed that way gets one EntityDied, with cause old_age unless its hunger
\* after eating is at or below 0, and then starvation; an EntityDied with
\* cause old_age is about an ant whose age has reached its max_age.  The
\* entities that are new after a tick are those named by its AntsSpawned,
\* EmergencySpawn and VisitorArrived events, and their age is 0.
C40_BoundedLifetime ==
    /\ \A i \in DOMAIN start.state.entities :
          \A j \in DOMAIN state.entities :
             state.entities[j].id = start.state.entities[i].id =>
                /\ state.entities[j].age =
                      start.state.entities[i].age + (state.tick - start.state.tick)
                /\ \/ state.tick = start.state.tick
                   \/ start.state.entities[i].age + (state.tick - start.state.tick)
                         < start.state.entities[i].max_age
    /\ probe.after # <<>> =>
          /\ probe.after[2].s.entities = probe.pre.s.entities
          /\ Len(probe.steps) = Len(probe.pre.s.entities)
          /\ \A i \in DOMAIN probe.pre.s.entities :
                LET entity == probe.pre.s.entities[i]
                    died == {k \in DOMAIN events :
                                /\ events[k].kind = "EntityDied"
                                /\ events[k].entity_id = entity.id}
                IN  /\ entity.age + 1 >= entity.max_age =>
                          /\ ~Among(probe.after[3].s.entities, entity.id)
                          /\ ~Among(state.entities, entity.id)
                          /\ entity.entity_type = "ant" =>
                                /\ Cardinality(died) = 1
                                /\ \A k \in died :
                                      /\ k > probe.after[2].nev /\ k <= probe.after[3].nev
                                      /\ events[k].cause =
                                            IF probe.steps[i].hunger_out <= 0
                                            THEN "starvation" ELSE "old_age"
                    /\ \A k \in died :
                          events[k].cause = "old_age" =>
                             /\ entity.age + 1 >= entity.max_age
                             /\ probe.steps[i].hunger_out > 0
                    /\ \A j \in DOMAIN state.entities :
                          state.entities[j].id = entity.id =>
                             /\ state.entities[j].age = entity.age + 1
                             /\ state.entities[j].max_age = entity.max_age
                             /\ state.entities[j].age < state.entities[j].max_age
          /\ \A j \in DOMAIN state.entities :
                ~Among(probe.pre.s.entities, state.entities[j].id) =>
                   /\ state.entities[j].age = 0
                   /\ state.entities[j].id \in Created
          /\ \A id \in Created :
                \E j \in DOMAIN state.entities :
                   state.entities[j].id = id /\ state.entities[j].age = 0

\* C40 case: an ant of the starting snapshot is removed for old age in the
\* (m - a)-th tick, not the first
C40_Witness ==
    /\ probe.after # <<>>
    /\ state.tick > start.state.tick + 1
    /\ \E i \in DOMAIN start.state.entities, k \in DOMAIN events :
          /\ start.state.entities[i].entity_type = "ant"
          /\ start.state.entities[i].max_age - start.state.entities[i].age =
                state.tick - start.state.tick
          /\ events[k].kind = "EntityDied"
          /\ events[k].entity_id = start.state.entities[i].id
          /\ events[k].cause = "old_age"

\* C40 case: an entity whose age is at or above its max_age is removed in
\* the next tick
C40_OverdueWitness ==
    /\ probe.after # <<>>
    /\ \E i \in DOMAIN probe.pre.s.entities :
          /\ probe.pre.s.entities[i].age >= probe.pre.s.entities[i].max_age
          /\ ~Among(state.entities, probe.pre.s.entities[i].id)

\* C40 case: an ant reaches its max_age with its hunger used up, and the
\* cause reported is starvation
C40_BothWitness ==
    /\ probe.after # <<>>
    /\ \E i \in DOMAIN probe.pre.s.entities, k \in DOMAIN events :
          /\ probe.pre.s.entities[i].entity_type = "ant"
          /\ probe.pre.s.entities[i].age + 1 >= probe.pre.s.entities[i].max_age
          /\ probe.steps[i].hunger_out <= 0
          /\ events[k].kind = "EntityDied"
          /\ events[k].entity_id = probe.pre.s.entities[i].id
          /\ events[k].cause = "starvation"

\* C40 case: a spawn and a summon in one tick; the three new entities have
\* age 0
C40_CreatedWitness ==
    /\ probe.after # <<>>
    /\ Cardinality(Created) = 3
    /\ \A id \in Created :
          \E j \in DOMAIN state.entities :
             state.entities[j].id = id /\ state.entities[j].age = 0

=============================================================================
